---- MODULE Spec2Model ----
(***************************************************************************)
(* The scan pipeline of arb-intel/backend/app: MarketScanner (engine/      *)
(* scanner.py), the manual scan route (api/routes.py), the application     *)
(* lifespan (main.py) and the WebSocket fan-out (api/websocket.py).        *)
(*                                                                         *)
(* Concurrency is asyncio: one event loop, cooperative tasks.  Every       *)
(* action below runs one task from the await it was suspended at to the    *)
(* next await it reaches, so every state of the model is a point where     *)
(* any other task (a reader, a second scan, a connection handler) can run. *)
(***************************************************************************)
EXTENDS Integers, Sequences, FiniteSets, TLC

\* ---- bounds of the model ------------------------------------------------
MaxScans == 2               \* scan_once invocations explored
MaxClock == 2               \* readings of the wall clock
MaxMarketsPerAdapter == 1   \* length of the list one adapter returns
MaxCallbacks == 2           \* length of MarketScanner._callbacks
MaxConns == 2               \* WebSocket connections over the process lifetime
MaxOpps == 1                \* opportunities one scan detects

\* ---- program constants --------------------------------------------------
NumAdapters == 5            \* the five fetches gathered by _fetch_all_markets

Tasks == {"loop", "manual"}         \* the start() task and a POST /scan request
Loops == {"loop", "loop2"}          \* tasks that call start(): lifespan's, and another
Subscribers == {"cbA", "cbB"}       \* callbacks given to register_callback
BSR == "broadcast_scan_result"      \* the callback the WebSocket layer registers
Conns == 1..MaxConns
MarketKinds == {"ok", "empty"}      \* a Market with outcomes, or with outcomes == []

VARIABLES
    running,            \* MarketScanner._running
    markets,            \* MarketScanner._markets: the scan that filled it, its size
    opportunities,      \* MarketScanner._opportunities: the scan that built it, its length
    last_scan,          \* MarketScanner._last_scan (0 is None)
    scan_duration_ms,   \* MarketScanner._scan_duration_ms
    callbacks,          \* MarketScanner._callbacks
    clock,              \* datetime.utcnow() / time.perf_counter()
    nextScan,           \* number of scan_once invocations so far
    pc,                 \* the await each task is suspended at
    scanOf,             \* the scan_once invocation a task is inside
    startedAt,          \* Timer._start of that invocation
    fetched,            \* results of asyncio.gather in that invocation
    result,             \* the ScanResult built by that invocation
    idx,                \* position of the for-loop over self._callbacks
    lastOutcome,        \* how the task's last scan_once ended (the printed log line)
    cbErrors,           \* number of "Callback error" lines printed
    delivered,          \* per subscriber: the scans it was invoked with, in order
    published,          \* the scans whose ScanResult was built, in order
    active_connections, \* ConnectionManager.active_connections
    wsPc,               \* the await each websocket_endpoint is suspended at
    sent,               \* per connection: the send calls issued on it, in order
    bcast,              \* per task: the state of ConnectionManager.broadcast
    callee,             \* the pure function a caller has invoked ("none": no call)
    arg,                \* the arguments of that call
    outcome,            \* how the call ended: pending, returned a value, raised
    client,             \* the response cache of an adapter: value, timestamp
    wall,               \* time.time() / datetime.utcnow() in seconds
    atStart,            \* per task: the callbacks registered when its notification started
    unregistered        \* subscribers whose unregister_callback returned, not registered since

vars == <<running, markets, opportunities, last_scan, scan_duration_ms, callbacks,
          clock, nextScan, pc, scanOf, startedAt, fetched, result, idx, lastOutcome,
          cbErrors, delivered, published, active_connections, wsPc, sent, bcast,
          callee, arg, outcome, client, wall, atStart, unregistered>>

\* The call of a pure function, and the state in which there is none.
callVars == <<callee, arg, outcome, client, wall>>
pureVars == <<callVars, atStart, unregistered>>
Pending == [state |-> "pending"]
Returned(v) == [state |-> "returned", value |-> v]
RaisedError(e) == [state |-> "raised", error |-> e]
PureIdle ==
    /\ callee = "none"
    /\ arg = <<>>
    /\ outcome = [state |-> "none"]

wsVars == <<active_connections, wsPc, sent, bcast>>

\* What a step outside the scanner leaves alone.
EngineUnchanged ==
    UNCHANGED <<running, markets, opportunities, last_scan, scan_duration_ms, callbacks,
                clock, nextScan, pc, scanOf, startedAt, fetched, result, idx, lastOutcome,
                cbErrors, delivered, published, active_connections, wsPc, sent, bcast,
                atStart, unregistered>>

ScannerUnchanged == EngineUnchanged /\ UNCHANGED <<client, wall>>

\* ---- values -------------------------------------------------------------
NoResult == [scan |-> 0, timestamp |-> 0, markets_scanned |-> 0, opps |-> 0]
NoBcast == [used |-> 0, visited |-> {}, cur |-> 0, disconnected |-> {}, atBegin |-> {}]

MarketLists == UNION {[1..k -> MarketKinds] : k \in 0..MaxMarketsPerAdapter}

\* What one awaitable handed to gather(return_exceptions=True) yields: an
\* exception object, a list of markets, or some other value.
AdapterOutcomes ==
    {[kind |-> "exception", items |-> <<>>], [kind |-> "other", items |-> <<>>]}
    \cup {[kind |-> "list", items |-> l] : l \in MarketLists}

GatherResults == [1..NumAdapters -> AdapterOutcomes]

EmptyList == [kind |-> "list", items |-> <<>>]
Raised == [kind |-> "exception", items |-> <<>>]
ListOf(kind) == [kind |-> "list", items |-> <<kind>>]

\* The inputs the concurrency specifications draw from: the first adapter
\* raises, returns one market, or returns one market without outcomes; the
\* other adapters return an empty list.
ScanInputs ==
    {[i \in 1..NumAdapters |-> IF i = 1 THEN o ELSE EmptyList] :
        o \in {Raised, ListOf("ok"), ListOf("empty")}}

\* ---- MarketScanner: pure parts ------------------------------------------
\* The read-only properties: what a reader obtains at a suspension point.
Markets == markets
Opportunities == opportunities
LastScan == last_scan

RECURSIVE CollectMarkets(_, _, _)
\* The for-loop of _fetch_all_markets over the gathered results: an exception
\* is logged and skipped, a list is appended, anything else is ignored.
CollectMarkets(results, i, all_markets) ==
    IF i > Len(results) THEN all_markets
    ELSE IF results[i].kind = "exception"
         THEN CollectMarkets(results, i + 1, all_markets)
         ELSE IF results[i].kind = "list"
              THEN CollectMarkets(results, i + 1, all_markets \o results[i].items)
              ELSE CollectMarkets(results, i + 1, all_markets)

RECURSIVE CollectUntilException(_, _, _)
\* A collection that stops at the first exception object instead of skipping it.
CollectUntilException(results, i, all_markets) ==
    IF i > Len(results) \/ results[i].kind = "exception" THEN all_markets
    ELSE CollectUntilException(results, i + 1,
             IF results[i].kind = "list" THEN all_markets \o results[i].items
             ELSE all_markets)

FetchAllMarketsBreak(results) == CollectUntilException(results, 1, <<>>)

FetchAllMarkets(results) == CollectMarkets(results, 1, <<>>)

\* The synchronous analysis between the market-map update and the state
\* update (grouping, debug prints, arbitrage and EV detection, sort) has no
\* handler of its own, so whatever it raises leaves scan_once.  It raises on
\* a Market whose outcomes list is empty (find_ev_opportunities indexes
\* m.outcomes[0]; Market does not forbid it and scan_once allows for it when
\* it builds the map key), and likewise on infinite odds
\* (decimal_to_american rounds them to an int).  "empty" stands for such a
\* market.
AnalysisRaises(all_markets) ==
    \E i \in 1..Len(all_markets) : all_markets[i] = "empty"

\* The number of opportunities detection can return for these markets.
OppCounts(all_markets) ==
    IF Len(all_markets) = 0 THEN {0} ELSE 0..MaxOpps

\* A timestamp read when the invocation started rather than when it publishes.
TimestampAtStart(t) == startedAt[t]

\* self._last_scan = datetime.utcnow(), read at the state update.
PublishTimestamp(t) == clock

\* Where a task goes when its scan_once returns: start() sleeps, a request ends.
AfterScan(t) == IF t \in Loops THEN "sleep" ELSE "idle"

\* A loop without the "except Exception" around scan_once: the task ends.
LoopDiesOnError(t) == IF t \in Loops THEN "exited" ELSE "idle"

\* Where a task goes when its scan_once raises: start() prints "Scan error"
\* and sleeps, a request fails.
AfterScanError(t) == IF t \in Loops THEN "sleep" ELSE "idle"

\* A notification that lets the exception of a callback end the for-loop.
NextPositionAbort(t, raised) == IF raised THEN Len(callbacks) + 1 ELSE idx[t] + 1

\* The position the for-loop over self._callbacks takes after a callback,
\* whether it returned or raised ("except Exception" inside the loop body).
NextPosition(t, raised) == idx[t] + 1

AppUp == lastOutcome["loop"] # "cancelled"

InList(seq, x) == \E k \in 1..Len(seq) : seq[k] = x

\* ---- notification -------------------------------------------------------
RECURSIVE FirstSuspending(_, _, _)
\* The first position >= i of the callback list whose callback reaches an
\* await.  broadcast_scan_result returns at once, without an await, when no
\* connection is active; a subscriber awaits.
FirstSuspending(cbs, i, act) ==
    IF i > Len(cbs) THEN i
    ELSE IF cbs[i] = BSR /\ act = {} THEN FirstSuspending(cbs, i + 1, act)
         ELSE i

ScanResultMsg(s) == <<"scan_result", s>>

\* for callback in self._callbacks: await callback(result), resumed at
\* position i of the list as it is now, up to the next await.  atStart keeps
\* the callbacks in the list the for-loop started with (i = 1) for as long as
\* the loop runs.
NotifyFrom(t, i, s, cbs, act) ==
    LET j == FirstSuspending(cbs, i, act)
        started == IF i = 1 THEN [atStart EXCEPT ![t] = {cbs[k] : k \in 1..Len(cbs)}]
                   ELSE atStart
    IN
    IF j > Len(cbs)
    THEN /\ pc' = [pc EXCEPT ![t] = AfterScan(t)]
         /\ idx' = [idx EXCEPT ![t] = 0]
         /\ lastOutcome' = [lastOutcome EXCEPT ![t] = "ok"]
         /\ bcast' = [bcast EXCEPT ![t] = NoBcast]
         /\ atStart' = [atStart EXCEPT ![t] = {}]
         /\ UNCHANGED <<delivered, sent>>
    ELSE IF cbs[j] \in Subscribers
    THEN /\ pc' = [pc EXCEPT ![t] = "incb"]
         /\ idx' = [idx EXCEPT ![t] = j]
         /\ delivered' = [delivered EXCEPT ![cbs[j]] = Append(@, s)]
         /\ bcast' = [bcast EXCEPT ![t] = NoBcast]
         /\ atStart' = started
         /\ UNCHANGED <<lastOutcome, sent>>
    ELSE \E c \in act :
         /\ pc' = [pc EXCEPT ![t] = "send"]
         /\ idx' = [idx EXCEPT ![t] = j]
         /\ sent' = [sent EXCEPT ![c] = Append(@, ScanResultMsg(s))]
         /\ bcast' = [bcast EXCEPT ![t] = [used |-> Cardinality(act), visited |-> {c},
                                           cur |-> c, disconnected |-> {},
                                           atBegin |-> act]]
         /\ atStart' = started
         /\ UNCHANGED <<lastOutcome, delivered>>

\* An adapter's response cache before anything was stored: PredictItClient
\* starts with _cache = [] and _cache_time = 0, market_cache with no entry.
\* "present" and "stored_at" record whether and when a response was stored.
NoStored == [cache |-> <<>>, cache_time |-> 0, present |-> FALSE, stored_at |-> 0]

\* ---- MarketScanner: operations ------------------------------------------
\* The state after construction, for the tasks T.
ScannerInitOver(T) ==
    /\ running = FALSE
    /\ markets = [scan |-> 0, size |-> 0]
    /\ opportunities = [scan |-> 0, size |-> 0]
    /\ last_scan = 0
    /\ scan_duration_ms = 0
    /\ callbacks = <<>>
    /\ clock = 1
    /\ nextScan = 0
    /\ pc = [t \in T |-> IF t \in Loops THEN "created" ELSE "idle"]
    /\ scanOf = [t \in T |-> 0]
    /\ startedAt = [t \in T |-> 0]
    /\ fetched = [t \in T |-> <<>>]
    /\ result = [t \in T |-> NoResult]
    /\ idx = [t \in T |-> 0]
    /\ lastOutcome = [t \in T |-> "none"]
    /\ cbErrors = 0
    /\ delivered = [cb \in Subscribers |-> <<>>]
    /\ published = <<>>
    /\ active_connections = {}
    /\ wsPc = [c \in Conns |-> "none"]
    /\ sent = [c \in Conns |-> <<>>]
    /\ bcast = [t \in T |-> NoBcast]
    /\ client = NoStored
    /\ wall = 0
    /\ atStart = [t \in T |-> {}]
    /\ unregistered = {}

ScannerInit == ScannerInitOver(Tasks)

Init == ScannerInit /\ PureIdle

\* scan_once up to its first await: timer.start(), then the gather.
BeginScan(t) ==
    /\ nextScan < MaxScans
    /\ nextScan' = nextScan + 1
    /\ scanOf' = [scanOf EXCEPT ![t] = nextScan + 1]
    /\ startedAt' = [startedAt EXCEPT ![t] = clock]
    /\ fetched' = [fetched EXCEPT ![t] = <<>>]
    /\ result' = [result EXCEPT ![t] = NoResult]
    /\ pc' = [pc EXCEPT ![t] = "fetch"]
    /\ lastOutcome' = [lastOutcome EXCEPT ![t] = "none"]

\* start(): the task created by lifespan runs up to the first fetch.
Start(t) ==
    /\ pc[t] = "created"
    /\ IF running
       THEN /\ pc' = [pc EXCEPT ![t] = "exited"]
            /\ UNCHANGED <<running, nextScan, scanOf, startedAt, fetched, result,
                           lastOutcome>>
       ELSE /\ running' = TRUE
            /\ BeginScan(t)
    /\ UNCHANGED <<markets, opportunities, last_scan, scan_duration_ms, callbacks, clock,
                   idx, cbErrors, delivered, published>>
    /\ UNCHANGED wsVars
    /\ UNCHANGED pureVars

\* POST /scan: trigger_scan -> run_single_scan -> scanner.scan_once().
ManualScan ==
    /\ pc["manual"] = "idle"
    /\ AppUp
    /\ BeginScan("manual")
    /\ UNCHANGED <<running, markets, opportunities, last_scan, scan_duration_ms, callbacks,
                   clock, idx, cbErrors, delivered, published>>
    /\ UNCHANGED wsVars
    /\ UNCHANGED pureVars

\* scan_once from the return of the gather to its next await (or its end):
\* the map update, the analysis, the state update, the ScanResult and the
\* first callback.  An exception of the analysis leaves scan_once; start()
\* catches it and goes to sleep, a request fails with it.
FetchDone(t, results, k) ==
    /\ pc[t] = "fetch"
    /\ LET all_markets == FetchAllMarkets(results) IN
       /\ fetched' = [fetched EXCEPT ![t] = results]
       /\ markets' = [scan |-> scanOf[t], size |-> Len(all_markets)]
       /\ IF AnalysisRaises(all_markets)
          THEN /\ k = 0
               /\ pc' = [pc EXCEPT ![t] = AfterScanError(t)]
               /\ lastOutcome' = [lastOutcome EXCEPT ![t] = "error"]
               /\ idx' = [idx EXCEPT ![t] = 0]
               /\ UNCHANGED <<opportunities, last_scan, scan_duration_ms, result,
                              published, delivered, sent, bcast, atStart>>
          ELSE /\ k \in OppCounts(all_markets)
               /\ opportunities' = [scan |-> scanOf[t], size |-> k]
               /\ last_scan' = PublishTimestamp(t)
               /\ scan_duration_ms' = clock - startedAt[t]
               /\ result' = [result EXCEPT ![t] =
                                [scan |-> scanOf[t], timestamp |-> PublishTimestamp(t),
                                 markets_scanned |-> Len(all_markets), opps |-> k]]
               /\ published' = Append(published, scanOf[t])
               /\ NotifyFrom(t, 1, scanOf[t], callbacks, active_connections)
    /\ UNCHANGED <<running, callbacks, clock, nextScan, scanOf, startedAt, cbErrors,
                   active_connections, wsPc>>
    /\ UNCHANGED <<callVars, unregistered>>

\* A subscriber's callback returns or raises; "except Exception" prints and
\* the for-loop goes on with the next position of the list.
CallbackDone(t, raised) ==
    /\ pc[t] = "incb"
    /\ cbErrors' = IF raised THEN cbErrors + 1 ELSE cbErrors
    /\ NotifyFrom(t, NextPosition(t, raised), result[t].scan, callbacks, active_connections)
    /\ UNCHANGED <<running, markets, opportunities, last_scan, scan_duration_ms, callbacks,
                   clock, nextScan, scanOf, startedAt, fetched, result, published,
                   active_connections, wsPc>>
    /\ UNCHANGED <<callVars, unregistered>>

\* asyncio.sleep(interval_seconds) returns: "while self._running".
SleepDone(t) ==
    /\ pc[t] = "sleep"
    /\ IF running
       THEN BeginScan(t)
       ELSE /\ pc' = [pc EXCEPT ![t] = "exited"]
            /\ UNCHANGED <<nextScan, scanOf, startedAt, fetched, result, lastOutcome>>
    /\ UNCHANGED <<running, markets, opportunities, last_scan, scan_duration_ms, callbacks,
                   clock, idx, cbErrors, delivered, published>>
    /\ UNCHANGED wsVars
    /\ UNCHANGED pureVars

\* stop(): a direct call.
Stop ==
    /\ running
    /\ AppUp
    /\ running' = FALSE
    /\ UNCHANGED <<markets, opportunities, last_scan, scan_duration_ms, callbacks, clock,
                   nextScan, pc, scanOf, startedAt, fetched, result, idx, lastOutcome,
                   cbErrors, delivered, published>>
    /\ UNCHANGED wsVars
    /\ UNCHANGED pureVars

\* lifespan shutdown: stop_scanner(), then scanner_task.cancel() and await.
\* CancelledError is raised at the await the task is suspended at; it is not an
\* Exception, so neither the callback handler nor the loop handler catches it.
Shutdown ==
    /\ AppUp
    /\ pc["loop"] # "exited"
    /\ running' = FALSE
    /\ pc' = [pc EXCEPT !["loop"] = "exited"]
    /\ lastOutcome' = [lastOutcome EXCEPT !["loop"] = "cancelled"]
    /\ idx' = [idx EXCEPT !["loop"] = 0]
    /\ bcast' = [bcast EXCEPT !["loop"] = NoBcast]
    /\ UNCHANGED <<markets, opportunities, last_scan, scan_duration_ms, callbacks, clock,
                   nextScan, scanOf, startedAt, fetched, result, cbErrors, delivered,
                   published, active_connections, wsPc, sent>>
    /\ atStart' = [atStart EXCEPT !["loop"] = {}]
    /\ UNCHANGED <<callVars, unregistered>>

\* register_callback(cb)
Register(cb) ==
    /\ AppUp
    /\ Len(callbacks) < MaxCallbacks
    /\ callbacks' = Append(callbacks, cb)
    /\ UNCHANGED <<running, markets, opportunities, last_scan, scan_duration_ms, clock,
                   nextScan, pc, scanOf, startedAt, fetched, result, idx, lastOutcome,
                   cbErrors, delivered, published>>
    /\ UNCHANGED wsVars
    /\ unregistered' = unregistered \ {cb}
    /\ UNCHANGED <<callVars, atStart>>

\* The wall clock advances.
Tick ==
    /\ clock < MaxClock
    /\ clock' = clock + 1
    /\ UNCHANGED <<running, markets, opportunities, last_scan, scan_duration_ms, callbacks,
                   nextScan, pc, scanOf, startedAt, fetched, result, idx, lastOutcome,
                   cbErrors, delivered, published>>
    /\ UNCHANGED wsVars
    /\ UNCHANGED pureVars

\* ---- WebSocket layer ----------------------------------------------------
ConnectedMsg == <<"connected", 0>>
InitialMsg(s) == <<"initial_opportunities", s>>

scanVars == <<running, markets, opportunities, last_scan, scan_duration_ms, clock,
              nextScan, scanOf, startedAt, fetched, result, published, delivered>>

\* websocket_endpoint up to "await websocket.accept()" inside manager.connect.
Connect(c) ==
    /\ AppUp
    /\ wsPc[c] = "none"
    /\ \A d \in Conns : d < c => wsPc[d] # "none"
    /\ wsPc' = [wsPc EXCEPT ![c] = "accepting"]
    /\ UNCHANGED <<scanVars, callbacks, pc, idx, lastOutcome, cbErrors,
                   active_connections, sent, bcast>>
    /\ UNCHANGED pureVars

\* accept() returned: the connection joins active_connections, the scan
\* callback is registered once more, and the "connected" message is sent.
Accepted(c) ==
    /\ wsPc[c] = "accepting"
    /\ active_connections' = active_connections \cup {c}
    /\ callbacks' = Append(callbacks, BSR)
    /\ sent' = [sent EXCEPT ![c] = Append(@, ConnectedMsg)]
    /\ wsPc' = [wsPc EXCEPT ![c] = "sending_connected"]
    /\ UNCHANGED <<scanVars, pc, idx, lastOutcome, cbErrors, bcast>>
    /\ UNCHANGED pureVars

\* The "connected" send returned: "if scanner.opportunities:" sends the
\* current list, otherwise the handler waits for a command.
SentConnected(c) ==
    /\ wsPc[c] = "sending_connected"
    /\ IF Opportunities.size > 0
       THEN /\ sent' = [sent EXCEPT ![c] = Append(@, InitialMsg(Opportunities.scan))]
            /\ wsPc' = [wsPc EXCEPT ![c] = "sending_initial"]
       ELSE /\ wsPc' = [wsPc EXCEPT ![c] = "listening"]
            /\ UNCHANGED sent
    /\ UNCHANGED <<scanVars, callbacks, pc, idx, lastOutcome, cbErrors,
                   active_connections, bcast>>
    /\ UNCHANGED pureVars

\* The "initial_opportunities" send returned.
SentInitial(c) ==
    /\ wsPc[c] = "sending_initial"
    /\ wsPc' = [wsPc EXCEPT ![c] = "listening"]
    /\ UNCHANGED <<scanVars, callbacks, pc, idx, lastOutcome, cbErrors,
                   active_connections, sent, bcast>>
    /\ UNCHANGED pureVars

\* The client goes away: receive_text raises WebSocketDisconnect, or a send
\* raises; "finally" runs manager.disconnect.  The callback stays registered.
\* A failure of accept() is outside the try and leaves the set alone.
ClientGone(c) ==
    /\ wsPc[c] \in {"accepting", "sending_connected", "sending_initial", "listening"}
    /\ wsPc' = [wsPc EXCEPT ![c] = "closed"]
    /\ active_connections' = active_connections \ {c}
    /\ UNCHANGED <<scanVars, callbacks, pc, idx, lastOutcome, cbErrors, sent, bcast>>
    /\ UNCHANGED pureVars

\* manager.broadcast: "await connection.send_text(data)" returned or raised.
\* The next step of the set iterator raises RuntimeError when the set's size
\* is no longer the one the iteration started with; that leaves broadcast and
\* is caught by scan_once as a callback error.  After the last connection the
\* failed ones are discarded and the for-loop over the callbacks goes on.
SendDone(t, ok) ==
    /\ pc[t] = "send"
    /\ LET b == bcast[t]
           failed == IF ok THEN b.disconnected ELSE b.disconnected \cup {b.cur}
       IN  IF Cardinality(active_connections) # b.used
           THEN /\ cbErrors' = cbErrors + 1
                /\ UNCHANGED active_connections
                /\ NotifyFrom(t, idx[t] + 1, result[t].scan, callbacks, active_connections)
           ELSE IF active_connections \ b.visited # {}
           THEN /\ \E c \in active_connections \ b.visited :
                      /\ sent' = [sent EXCEPT ![c] = Append(@, ScanResultMsg(result[t].scan))]
                      /\ bcast' = [bcast EXCEPT ![t] =
                                      [used |-> b.used, visited |-> b.visited \cup {c},
                                       cur |-> c, disconnected |-> failed,
                                       atBegin |-> b.atBegin]]
                /\ UNCHANGED <<pc, idx, lastOutcome, delivered, cbErrors, active_connections,
                               atStart>>
           ELSE /\ active_connections' = active_connections \ failed
                /\ UNCHANGED cbErrors
                /\ NotifyFrom(t, idx[t] + 1, result[t].scan, callbacks,
                              active_connections \ failed)
    /\ UNCHANGED <<running, markets, opportunities, last_scan, scan_duration_ms, callbacks,
                   clock, nextScan, scanOf, startedAt, fetched, result, published, wsPc>>
    /\ UNCHANGED <<callVars, unregistered>>

\* ---- specifications -----------------------------------------------------
ScanStep ==
    \E t \in Tasks : pc[t] = "fetch" /\ \E r \in ScanInputs, k \in 0..MaxOpps : FetchDone(t, r, k)
\* A scan in which detection finds no opportunity.
QuietScanStep ==
    \E t \in Tasks : pc[t] = "fetch" /\ \E r \in ScanInputs : FetchDone(t, r, 0)
FetchAnyStep ==
    pc["loop"] = "fetch" /\ \E r \in GatherResults : FetchDone("loop", r, 0)
CallbackStep == \E t \in Tasks, raised \in BOOLEAN : CallbackDone(t, raised)
RegisterStep == \E cb \in Subscribers : Register(cb)
ConnectStep == \E c \in Conns : Connect(c)
AcceptedStep == \E c \in Conns : Accepted(c)
SentConnectedStep == \E c \in Conns : SentConnected(c)
SentInitialStep == \E c \in Conns : SentInitial(c)
ClientGoneStep == \E c \in Conns : ClientGone(c)
SendStep == \E t \in Tasks, ok \in BOOLEAN : SendDone(t, ok)

\* The scanner with the continuous loop, manual scans, stop and shutdown.
Next ==
    \/ Start("loop")
    \/ ManualScan
    \/ ScanStep
    \/ SleepDone("loop")
    \/ Stop
    \/ Shutdown
    \/ Tick

Spec == Init /\ [][Next]_vars

\* The scanner with subscribers.
NextNotify ==
    \/ Start("loop")
    \/ ManualScan
    \/ QuietScanStep
    \/ CallbackStep
    \/ SleepDone("loop")
    \/ RegisterStep

SpecNotify == Init /\ [][NextNotify]_vars

\* One loop, every combination of adapter outcomes.
NextFetch ==
    \/ Start("loop")
    \/ FetchAnyStep
    \/ SleepDone("loop")

SpecFetch == Init /\ [][NextFetch]_vars

\* The loop under the scheduling asyncio guarantees: a sleep that was started
\* returns.
SpecLive == Init /\ [][Next]_vars /\ WF_vars(SleepDone("loop"))

\* The loop with WebSocket clients.
NextWS ==
    \/ Start("loop")
    \/ ScanStep
    \/ SleepDone("loop")
    \/ ConnectStep
    \/ AcceptedStep
    \/ SentConnectedStep
    \/ SentInitialStep
    \/ ClientGoneStep
    \/ SendStep

SpecWS == Init /\ [][NextWS]_vars

\* ---- core/matcher.py: find_matching_markets ------------------------------
MaxMarkets == 3             \* length of the list given to find_matching_markets

EventIds == {"E1", "E2"}
Venues == {"draftkings", "fanduel"}
\* Two event names: equal names have similarity 0.5 (word and string
\* similarity 1, no entity), the two different ones share no word and stay
\* under the threshold 0.45.
EventNames == {"Lakers @ Celtics", "Bulls @ Knicks"}
\* The outcome names of a market: the two teams, or Over / Under.
OutcomeKinds == {"h2h", "totals"}
Sports == {"NBA", "Politics"}

\* A Market as the matcher reads it; all outcomes of a market are of one venue.
MatcherMarkets ==
    [event_id : EventIds, venue : Venues, event_name : EventNames,
     kind : OutcomeKinds, sport : Sports]

MatcherInputs == UNION {[1..n -> MatcherMarkets] : n \in 0..MaxMarkets}

\* normalize_category: "NBA" is a sports variant, "Politics" a politics one.
NormalizeCategory(sport) == IF sport = "NBA" THEN "sports" ELSE "politics"

CategoriesMatch(cat1, cat2) ==
    LET norm1 == NormalizeCategory(cat1)
        norm2 == NormalizeCategory(cat2)
    IN  IF norm1 = "tech" \/ norm2 = "tech"
        THEN norm1 \in {"tech", "politics", "world", "economics"}
             /\ norm2 \in {"tech", "politics", "world", "economics"}
        ELSE norm1 = norm2

\* outcomes_compatible: neither kind is Yes/No; team names of one event
\* contain each other, and no team name contains or is contained in "over"
\* or "under".
OutcomesCompatible(m1, m2) ==
    m1.kind = m2.kind /\ (m1.kind = "h2h" => m1.event_name = m2.event_name)

\* calculate_similarity(...) >= threshold for the names above.
SimilarNames(n1, n2) == n1 = n2

MarketsMatch(m1, m2) ==
    /\ m1.venue # m2.venue
    /\ CategoriesMatch(m1.sport, m2.sport)
    /\ OutcomesCompatible(m1, m2)
    /\ SimilarNames(m1.event_name, m2.event_name)

\* create_canonical_event_id: "matched_" and the first five words of the
\* normalized longest name (the first of the longest ones).
CanonicalOfName(name) ==
    IF name = "Lakers @ Celtics" THEN "matched_lakers_celtics" ELSE "matched_bulls_knicks"

NameLen(name) == IF name = "Lakers @ Celtics" THEN 16 ELSE 14

CreateCanonicalEventId(ms, group) ==
    LET best == CHOOSE k \in 1..Len(group) :
                    /\ \A j \in 1..Len(group) :
                          NameLen(ms[group[j]].event_name) <= NameLen(ms[group[k]].event_name)
                    /\ \A j \in 1..(k - 1) :
                          NameLen(ms[group[j]].event_name) < NameLen(ms[group[k]].event_name)
    IN  CanonicalOfName(ms[group[best]].event_name)

SeqRange(seq) == {seq[k] : k \in 1..Len(seq)}

RECURSIVE GrowGroup(_, _, _, _)
\* The inner for-loop: positions j > i not matched yet join the current group
\* when they match any member of it.  Markets are named by their position in
\* the input list, as the code tells them apart by id().
GrowGroup(ms, j, current_group, matched_indices) ==
    IF j > Len(ms) THEN current_group
    ELSE IF j \in matched_indices
         THEN GrowGroup(ms, j + 1, current_group, matched_indices)
         ELSE IF \E k \in 1..Len(current_group) : MarketsMatch(ms[current_group[k]], ms[j])
              THEN GrowGroup(ms, j + 1, Append(current_group, j), matched_indices \cup {j})
              ELSE GrowGroup(ms, j + 1, current_group, matched_indices)

RECURSIVE MergeGroups(_, _, _, _)
\* The outer for-loop: merged_groups, in the order they are found.
MergeGroups(ms, i, matched_indices, merged_groups) ==
    IF i > Len(ms) THEN merged_groups
    ELSE IF i \in matched_indices
         THEN MergeGroups(ms, i + 1, matched_indices, merged_groups)
         ELSE LET current_group == GrowGroup(ms, i + 1, <<i>>, matched_indices \cup {i})
              IN  MergeGroups(ms, i + 1, matched_indices \cup SeqRange(current_group),
                              IF Len(current_group) > 1
                              THEN Append(merged_groups, current_group)
                              ELSE merged_groups)

\* result[key] = group on a dict held as a function from keys to groups.
DictSet(d, key, group) ==
    [k \in DOMAIN d \cup {key} |-> IF k = key THEN group ELSE d[k]]

EmptyDict == [k \in {} |-> <<>>]

RECURSIVE AddMerged(_, _, _, _)
\* "Add merged groups with new canonical IDs": only groups of several venues.
AddMerged(ms, merged_groups, g, result_map) ==
    IF g > Len(merged_groups) THEN result_map
    ELSE LET group == merged_groups[g]
             venues == {ms[group[k]].venue : k \in 1..Len(group)}
         IN  AddMerged(ms, merged_groups, g + 1,
                       IF Cardinality(venues) > 1
                       THEN DictSet(result_map, CreateCanonicalEventId(ms, group), group)
                       ELSE result_map)

\* groups[market.event_id]: the positions of the markets of one event_id.
EventGroup(ms, event_id) ==
    SelectSeq([k \in 1..Len(ms) |-> k], LAMBDA k : ms[k].event_id = event_id)

RECURSIVE AddSingles(_, _, _, _)
\* "Add single-venue groups": an event_id group is emitted unless one of its
\* markets is in a merged group.
AddSingles(ms, merged_groups, i, result_map) ==
    IF i > Len(ms) THEN result_map
    ELSE LET group == EventGroup(ms, ms[i].event_id)
             already_merged ==
                 \E g \in 1..Len(merged_groups) :
                     SeqRange(group) \cap SeqRange(merged_groups[g]) # {}
         IN  AddSingles(ms, merged_groups, i + 1,
                        IF already_merged THEN result_map
                        ELSE DictSet(result_map, ms[i].event_id, group))

FindMatchingMarkets(ms) ==
    LET merged_groups == MergeGroups(ms, 1, {}, <<>>)
    IN  AddSingles(ms, merged_groups, 1, AddMerged(ms, merged_groups, 1, EmptyDict))

\* A caller hands a list of markets to find_matching_markets.
InitMatcher ==
    /\ ScannerInit
    /\ callee = "find_matching_markets"
    /\ arg \in MatcherInputs
    /\ outcome = Pending

\* find_matching_markets returns.
MatcherReturns ==
    /\ callee = "find_matching_markets"
    /\ outcome = Pending
    /\ outcome' = Returned(FindMatchingMarkets(arg))
    /\ UNCHANGED <<callee, arg>>
    /\ ScannerUnchanged

SpecMatcher == InitMatcher /\ [][MatcherReturns]_vars

\* ---- numbers ---------------------------------------------------------------
\* Python floats are held as exact fractions [n, d] in lowest terms with
\* d > 0; odds are given in hundredths and fees in tenths of a percent, as the
\* venues quote them.
RECURSIVE Gcd(_, _)
Gcd(a, b) == IF b = 0 THEN a ELSE Gcd(b, a % b)

Abs(x) == IF x < 0 THEN -x ELSE x

Rat(n, d) ==
    LET s == IF d < 0 THEN -1 ELSE 1
        g == Gcd(Abs(n), Abs(d))
    IN  [n |-> (s * n) \div g, d |-> (s * d) \div g]

RAdd(a, b) ==
    LET g == Gcd(a.d, b.d)
    IN  Rat(a.n * (b.d \div g) + b.n * (a.d \div g), (a.d \div g) * b.d)
RSub(a, b) == RAdd(a, [n |-> -b.n, d |-> b.d])
\* Products cancel common factors first, to stay within TLC's integers.
RMul(a, b) ==
    LET g1 == Gcd(Abs(a.n), b.d)
        g2 == Gcd(Abs(b.n), a.d)
    IN  Rat((a.n \div g1) * (b.n \div g2), (a.d \div g2) * (b.d \div g1))
RDiv(a, b) == RMul(a, Rat(b.d, b.n))
RLt(a, b) == LET g == Gcd(a.d, b.d) IN a.n * (b.d \div g) < b.n * (a.d \div g)
RLe(a, b) == LET g == Gcd(a.d, b.d) IN a.n * (b.d \div g) <= b.n * (a.d \div g)
RInt(k) == [n |-> k, d |-> 1]
Zero == RInt(0)
One == RInt(1)
Hundred == RInt(100)

\* ---- core/math.py ----------------------------------------------------------
MaxOutcomes == 3            \* length of an odds vector

\* Decimal odds in hundredths: 105 is 1.05.  100 and 80 are not odds.
OddsCents == {80, 100, 105, 180, 195, 200, 205, 210, 300}
\* Fees in tenths of a percent: 60 is 6.0 %.
FeeTenths == {0, 20, 60}

Odds(c) == Rat(c, 100)
FeePct(f) == Rat(f, 10)

OddsVectors == UNION {[1..n -> OddsCents] : n \in 0..MaxOutcomes}

\* calculate_implied_probability: P = 1 / decimal_odds, ValueError on odds <= 1.
ImpliedProbabilityRaises(decimal_odds) == RLe(decimal_odds, One)
CalculateImpliedProbability(decimal_odds) == RDiv(One, decimal_odds)

RECURSIVE SumSeq(_, _)
\* sum(xs), from the left.
SumSeq(xs, k) == IF k = 0 THEN Zero ELSE RAdd(SumSeq(xs, k - 1), xs[k])

\* detect_arbitrage with "<=" for "<".
DetectArbitrageInclusive(decimal_odds, total_fee_pct) ==
    IF Len(decimal_odds) < 2 \/ \E i \in 1..Len(decimal_odds) :
                                    ImpliedProbabilityRaises(decimal_odds[i])
    THEN RaisedError("ValueError")
    ELSE LET implied_probs == [i \in 1..Len(decimal_odds) |->
                                  CalculateImpliedProbability(decimal_odds[i])]
             prob_sum == SumSeq(implied_probs, Len(implied_probs))
             threshold == RSub(One, RDiv(total_fee_pct, Hundred))
             is_arb == RLe(prob_sum, threshold)
             margin == RSub(threshold, prob_sum)
         IN  Returned([is_arbitrage |-> is_arb,
                       profit_pct |-> IF is_arb THEN RMul(margin, Hundred) ELSE Zero,
                       implied_prob_sum |-> prob_sum,
                       margin |-> margin])

\* detect_arbitrage: ValueError for fewer than two odds or odds <= 1.
DetectArbitrage(decimal_odds, total_fee_pct) ==
    IF Len(decimal_odds) < 2 \/ \E i \in 1..Len(decimal_odds) :
                                    ImpliedProbabilityRaises(decimal_odds[i])
    THEN RaisedError("ValueError")
    ELSE LET implied_probs == [i \in 1..Len(decimal_odds) |->
                                  CalculateImpliedProbability(decimal_odds[i])]
             prob_sum == SumSeq(implied_probs, Len(implied_probs))
             fee_decimal == RDiv(total_fee_pct, Hundred)
             threshold == RSub(One, fee_decimal)
             is_arb == RLt(prob_sum, threshold)
             margin == RSub(threshold, prob_sum)
         IN  Returned([is_arbitrage |-> is_arb,
                       profit_pct |-> IF is_arb THEN RMul(margin, Hundred) ELSE Zero,
                       implied_prob_sum |-> prob_sum,
                       margin |-> margin])

\* A caller hands an odds vector and a fee to detect_arbitrage.
InitDetect ==
    /\ ScannerInit
    /\ callee = "detect_arbitrage"
    /\ arg \in [odds : OddsVectors, fee : FeeTenths]
    /\ outcome = Pending

\* detect_arbitrage returns or raises.
DetectReturns ==
    /\ callee = "detect_arbitrage"
    /\ outcome = Pending
    /\ outcome' = DetectArbitrage([i \in 1..Len(arg.odds) |-> Odds(arg.odds[i])],
                                  FeePct(arg.fee))
    /\ UNCHANGED <<callee, arg>>
    /\ ScannerUnchanged

SpecDetect == InitDetect /\ [][DetectReturns]_vars

\* ---- core/sizing.py --------------------------------------------------------
RECURSIVE ScaledFloor(_, _, _)
\* floor(q + r/d scaled by 10^k) and what is left of it, a digit at a time.
ScaledFloor(qr, d, k) ==
    IF k = 0 THEN qr
    ELSE ScaledFloor([q |-> qr.q * 10 + (qr.r * 10) \div d, r |-> (qr.r * 10) % d], d, k - 1)

\* round(x, k) in units of 10^-k: to the nearest one, a tie to the even one.
RoundUnits(x, k) ==
    LET f == x.n \div x.d
        qr == ScaledFloor([q |-> f, r |-> x.n - f * x.d], x.d, k)
    IN  IF 2 * qr.r < x.d THEN qr.q
        ELSE IF 2 * qr.r > x.d THEN qr.q + 1
        ELSE IF qr.q % 2 = 0 THEN qr.q ELSE qr.q + 1

\* x lies exactly halfway between two units of 10^-k. There the float's binary
\* expansion, which these exact fractions do not carry, decides the rounding.
Halfway(x, k) ==
    LET f == x.n \div x.d
        qr == ScaledFloor([q |-> f, r |-> x.n - f * x.d], x.d, k)
    IN  2 * qr.r = x.d

\* round(x, 2) and round(x, 4)
Round2(x) == Rat(RoundUnits(x, 2), 100)
Round4(x) == Rat(RoundUnits(x, 4), 10000)

RECURSIVE MinSeq(_, _)
\* min(xs)
MinSeq(xs, k) ==
    IF k = 1 THEN xs[1]
    ELSE LET m == MinSeq(xs, k - 1) IN IF RLt(xs[k], m) THEN xs[k] ELSE m

\* Odds and capitals (in cents) handed to calculate_stakes.
SizingOddsCents == {100, 150, 200, 300, 400, 2103, 105}
CapitalCents == {2, 5, 500, 100000}
SizingVectors == UNION {[1..n -> SizingOddsCents] : n \in 1..MaxOutcomes}

\* The first rounding of the stakes: stake_i = round(C * P_i / sum P, 2).
FirstStakes(implied_probs, prob_sum, total_capital) ==
    [i \in 1..Len(implied_probs) |->
        Round2(RDiv(RMul(total_capital, implied_probs[i]), prob_sum))]

\* "Adjust for rounding": scale by C / total and round again, once.
Rescale(stakes, total_capital) ==
    LET total_stake == SumSeq(stakes, Len(stakes))
    IN  IF RLt(total_capital, total_stake)
        THEN LET scale == RDiv(total_capital, total_stake)
             IN  [i \in 1..Len(stakes) |-> Round2(RMul(stakes[i], scale))]
        ELSE stakes

\* calculate_stakes
CalculateStakes(decimal_odds, total_capital, fee_pct) ==
    IF Len(decimal_odds) < 2 \/ \E i \in 1..Len(decimal_odds) :
                                    ImpliedProbabilityRaises(decimal_odds[i])
    THEN RaisedError("ValueError")
    ELSE LET implied_probs == [i \in 1..Len(decimal_odds) |->
                                  CalculateImpliedProbability(decimal_odds[i])]
             prob_sum == SumSeq(implied_probs, Len(implied_probs))
             stakes == Rescale(FirstStakes(implied_probs, prob_sum, total_capital),
                               total_capital)
             total_stake == SumSeq(stakes, Len(stakes))
             cashouts == [i \in 1..Len(stakes) |-> RMul(stakes[i], decimal_odds[i])]
             guaranteed_cashout == MinSeq(cashouts, Len(cashouts))
             fees == RMul(total_stake, RDiv(fee_pct, Hundred))
             guaranteed_profit == RSub(RSub(guaranteed_cashout, total_stake), fees)
             profit_pct == IF RLt(Zero, total_stake)
                           THEN RMul(RDiv(guaranteed_profit, total_stake), Hundred)
                           ELSE Zero
         IN  Returned([stakes |-> stakes,
                       total_stake |-> total_stake,
                       guaranteed_cashout |-> Round2(guaranteed_cashout),
                       guaranteed_profit |-> Round2(guaranteed_profit),
                       profit_pct |-> Round4(profit_pct)])

\* Some value calculate_stakes rounds lies exactly halfway between two units.
RoundsHalfway(decimal_odds, total_capital, fee_pct) ==
    /\ Len(decimal_odds) >= 2
    /\ \A i \in 1..Len(decimal_odds) : ~ImpliedProbabilityRaises(decimal_odds[i])
    /\ LET implied_probs == [i \in 1..Len(decimal_odds) |->
                                CalculateImpliedProbability(decimal_odds[i])]
           prob_sum == SumSeq(implied_probs, Len(implied_probs))
           first == FirstStakes(implied_probs, prob_sum, total_capital)
           first_total == SumSeq(first, Len(first))
           stakes == Rescale(first, total_capital)
           total_stake == SumSeq(stakes, Len(stakes))
           guaranteed_cashout ==
               MinSeq([i \in 1..Len(stakes) |-> RMul(stakes[i], decimal_odds[i])],
                      Len(stakes))
           guaranteed_profit ==
               RSub(RSub(guaranteed_cashout, total_stake),
                    RMul(total_stake, RDiv(fee_pct, Hundred)))
       IN  \/ \E i \in 1..Len(decimal_odds) :
                 Halfway(RDiv(RMul(total_capital, implied_probs[i]), prob_sum), 2)
           \/ /\ RLt(total_capital, first_total)
              /\ \E i \in 1..Len(first) :
                    Halfway(RMul(first[i], RDiv(total_capital, first_total)), 2)
           \/ Halfway(guaranteed_cashout, 2)
           \/ Halfway(guaranteed_profit, 2)
           \/ /\ RLt(Zero, total_stake)
              /\ Halfway(RMul(RDiv(guaranteed_profit, total_stake), Hundred), 4)

\* A caller hands odds, a capital and a fee to calculate_stakes. Inputs that
\* make it round a value lying exactly halfway are left out.
InitSizing ==
    /\ ScannerInit
    /\ callee = "calculate_stakes"
    /\ arg \in [odds : SizingVectors, capital : CapitalCents, fee : FeeTenths]
    /\ ~RoundsHalfway([i \in 1..Len(arg.odds) |-> Odds(arg.odds[i])],
                      Rat(arg.capital, 100), FeePct(arg.fee))
    /\ outcome = Pending

\* calculate_stakes returns or raises.
SizingReturns ==
    /\ callee = "calculate_stakes"
    /\ outcome = Pending
    /\ outcome' = CalculateStakes([i \in 1..Len(arg.odds) |-> Odds(arg.odds[i])],
                                  Rat(arg.capital, 100), FeePct(arg.fee))
    /\ UNCHANGED <<callee, arg>>
    /\ ScannerUnchanged

SpecSizing == InitSizing /\ [][SizingReturns]_vars

\* ---- core/fees.py, engine/arbitrage.py --------------------------------------

\* VENUE_FEES[...].trading_fee_pct, in tenths of a percent.
TradingFeeTenths(venue) ==
    CASE venue = "betfair" -> 20
      [] venue \in {"polymarket", "kalshi", "manifold",
                    "draftkings", "fanduel", "betmgm"} -> 0
      [] OTHER -> 10

\* get_venue_fees(venue).trading_fee_pct
GetVenueFees(venue) == FeePct(TradingFeeTenths(venue))

\* The defaults of min_profit_pct and stake.
MIN_ARBITRAGE_PROFIT_PCT == Rat(1, 10)
DEFAULT_STAKE_USD == 1000

\* Markets of one game handed to find_arbitrage_opportunities: two outcomes
\* each, named as the venue spells them.
ArbVenues == {"draftkings", "fanduel", "polymarket", "betfair"}
LakersCents == {205, 210}
CelticsCents == {180, 195}
ArbMarkets ==
    {[venue |-> v,
      outcomes |-> <<[name |-> "Lakers", venue |-> v, odds_decimal |-> Odds(a)],
                     [name |-> "Celtics", venue |-> v, odds_decimal |-> Odds(b)]>>] :
        v \in ArbVenues, a \in LakersCents, b \in CelticsCents}
ArbGroups == UNION {[1..n -> ArbMarkets] : n \in 0..MaxMarkets}

\* str.lower() on the outcome names
Lower(name) ==
    CASE name = "Lakers" -> "lakers"
      [] name = "Celtics" -> "celtics"
      [] name = "Yes" -> "yes"
      [] name = "No" -> "no"
      [] OTHER -> name

RECURSIVE AllOutcomes(_, _)
\* The outcomes of the first k markets of a group, in the order the two loops visit them.
AllOutcomes(group, k) ==
    IF k = 0 THEN <<>> ELSE AllOutcomes(group, k - 1) \o group[k].outcomes

RECURSIVE OutcomeKeys(_, _)
\* The keys of outcomes_by_name, in insertion order.
OutcomeKeys(outs, k) ==
    IF k = 0 THEN <<>>
    ELSE LET keys == OutcomeKeys(outs, k - 1)
         IN  IF \E i \in 1..Len(keys) : keys[i] = Lower(outs[k].name)
             THEN keys ELSE Append(keys, Lower(outs[k].name))

\* max(outcomes, key=odds_decimal): the first one among the largest.
BestOutcome(outs, key) ==
    LET idxs == {i \in 1..Len(outs) : Lower(outs[i].name) = key}
        best == CHOOSE i \in idxs :
                    \A j \in idxs : \/ RLt(outs[j].odds_decimal, outs[i].odds_decimal)
                                    \/ /\ outs[j].odds_decimal = outs[i].odds_decimal
                                       /\ i <= j
    IN  outs[best]

\* assess_risk
AssessRisk(profit_pct, venues) ==
    LET base_risk == IF RLe(Rat(2, 1), profit_pct) THEN "LOW"
                     ELSE IF RLe(Rat(1, 2), profit_pct) THEN "MEDIUM" ELSE "HIGH"
    IN  IF \A i \in 1..Len(venues) : venues[i] \in {"polymarket", "kalshi", "manifold"}
        THEN "LOW"
        ELSE IF Cardinality({venues[i] : i \in 1..Len(venues)}) > 1 /\ base_risk = "LOW"
             THEN "MEDIUM"
             ELSE base_risk

\* The body of the loop of find_arbitrage_opportunities for one event group:
\* the opportunities it appends (none or one). The two-outcome branch and the
\* branch for three or more differ in expires_in_seconds only, which is left out.
GroupOpportunities(group, min_profit_pct, stake) ==
    LET outs == AllOutcomes(group, Len(group))
        outcome_names == OutcomeKeys(outs, Len(outs))
    IN  IF Len(group) < 2 \/ Len(outcome_names) < 2 THEN <<>>
        ELSE
        LET best == [i \in 1..Len(outcome_names) |-> BestOutcome(outs, outcome_names[i])]
            all_odds == [i \in 1..Len(best) |-> best[i].odds_decimal]
            venues == [i \in 1..Len(best) |-> best[i].venue]
            fee_pct == SumSeq([i \in 1..Len(venues) |-> GetVenueFees(venues[i])],
                              Len(venues))
            arb_result == DetectArbitrage(all_odds, fee_pct).value
        IN  IF arb_result.is_arbitrage /\ RLe(min_profit_pct, arb_result.profit_pct)
            THEN LET sizing == CalculateStakes(all_odds, stake, fee_pct).value
                 IN  <<[type |-> "ARBITRAGE",
                        expected_profit_pct |-> Round4(sizing.profit_pct),
                        expected_profit_usd |-> sizing.guaranteed_profit,
                        total_stake |-> sizing.total_stake,
                        instructions |->
                            [i \in 1..Len(best) |->
                                [venue |-> best[i].venue,
                                 outcome |-> best[i].name,
                                 stake_usd |-> sizing.stakes[i],
                                 odds_decimal |-> all_odds[i],
                                 potential_payout |->
                                     Round2(RMul(sizing.stakes[i], all_odds[i]))]],
                        fees_usd |-> Round2(RDiv(RMul(sizing.total_stake, fee_pct), Hundred)),
                        risk |-> AssessRisk(sizing.profit_pct, venues)]>>
            ELSE <<>>

RECURSIVE FindArbitrageOpportunities(_, _, _, _)
\* find_arbitrage_opportunities over the first k event groups.
FindArbitrageOpportunities(event_groups, k, min_profit_pct, stake) ==
    IF k = 0 THEN <<>>
    ELSE FindArbitrageOpportunities(event_groups, k - 1, min_profit_pct, stake)
         \o GroupOpportunities(event_groups[k], min_profit_pct, stake)

\* The scanner hands one event group to find_arbitrage_opportunities, with the
\* default threshold and stake.
InitArbitrage ==
    /\ ScannerInit
    /\ callee = "find_arbitrage_opportunities"
    /\ arg \in [event_groups : {<<g>> : g \in ArbGroups}]
    /\ outcome = Pending

\* find_arbitrage_opportunities returns its list.
ArbitrageReturns ==
    /\ callee = "find_arbitrage_opportunities"
    /\ outcome = Pending
    /\ outcome' = Returned(FindArbitrageOpportunities(arg.event_groups,
                               Len(arg.event_groups),
                               MIN_ARBITRAGE_PROFIT_PCT, Rat(DEFAULT_STAKE_USD, 1)))
    /\ UNCHANGED <<callee, arg>>
    /\ ScannerUnchanged

SpecArbitrage == InitArbitrage /\ [][ArbitrageReturns]_vars

\* ---- core/math.py (expected value), engine/ev.py ----------------------------

\* calculate_ev_pct
CalculateEvPct(decimal_odds, true_probability, fee_pct) ==
    RSub(RMul(RSub(RMul(true_probability, decimal_odds), One), Hundred), fee_pct)

\* calculate_kelly_fraction with b taken as the gross odds, not the net odds.
KellyOfGrossOdds(decimal_odds, true_probability, fee_pct) ==
    LET b == RMul(decimal_odds, RSub(One, RDiv(fee_pct, Hundred)))
    IN  IF RLe(b, Zero) THEN Zero
        ELSE LET kelly == RDiv(RSub(RMul(true_probability, RAdd(b, One)), One), b)
             IN  IF RLt(kelly, Zero) THEN Zero ELSE kelly

\* calculate_kelly_fraction
CalculateKellyFraction(decimal_odds, true_probability, fee_pct) ==
    LET effective_odds == RMul(decimal_odds, RSub(One, RDiv(fee_pct, Hundred)))
        b == RSub(effective_odds, One)
    IN  IF RLe(b, Zero) THEN Zero
        ELSE LET kelly == RDiv(RSub(RMul(true_probability, RAdd(b, One)), One), b)
             IN  IF RLt(kelly, Zero) THEN Zero ELSE kelly

\* decimal_to_probability as find_ev_opportunities uses it: 1 / odds.
DecimalToProbability(decimal_odds) == RDiv(One, decimal_odds)

\* The default of min_ev_pct.
MIN_EV_PCT == Rat(3, 1)

PROBABILITY_ANCHORS == {"polymarket", "kalshi", "manifold", "betfair"}

\* Markets of one question handed to find_ev_opportunities: one outcome each,
\* odds in thousandths.
EvVenues == {"manifold", "polymarket", "draftkings"}
EvOddsMilli == {1667, 2000}
EvMarkets ==
    {[venue |-> v,
      outcomes |-> <<[name |-> nm, venue |-> v, odds_decimal |-> Rat(o, 1000)]>>] :
        v \in EvVenues, nm \in {"Yes", "No"}, o \in EvOddsMilli}
EvGroups == UNION {[1..n -> EvMarkets] : n \in 0..MaxMarkets}

\* The markets of a group whose first outcome's venue is (or is not) an anchor.
SelectMarkets(group, anchors) ==
    SelectSeq(group, LAMBDA m : (m.outcomes[1].venue \in PROBABILITY_ANCHORS) = anchors)

\* true_probs.get(name): the last outcome of the anchor with that name, if any.
TrueProb(anchor, name) ==
    LET idxs == {i \in 1..Len(anchor.outcomes) : Lower(anchor.outcomes[i].name) = name}
    IN  IF idxs = {} THEN [found |-> FALSE]
        ELSE LET last == CHOOSE i \in idxs : \A j \in idxs : j <= i
             IN  [found |-> TRUE,
                  prob |-> DecimalToProbability(anchor.outcomes[last].odds_decimal)]

\* What find_ev_opportunities appends for one outcome of a betting market.
OutcomeEv(o, anchor, min_ev_pct, stake) ==
    LET true_prob == TrueProb(anchor, Lower(o.name))
    IN  IF ~true_prob.found THEN <<>>
        ELSE
        LET fee_pct == GetVenueFees(o.venue)
            ev_pct == CalculateEvPct(o.odds_decimal, true_prob.prob, fee_pct)
        IN  IF RLe(min_ev_pct, ev_pct)
            THEN LET kelly == CalculateKellyFraction(o.odds_decimal, true_prob.prob, fee_pct)
                     quarter == RMul(RMul(stake, kelly), Rat(1, 4))
                     recommended_stake == Round2(IF RLt(quarter, stake) THEN quarter ELSE stake)
                 IN  <<[type |-> "EV",
                        expected_profit_pct |-> Round4(ev_pct),
                        expected_profit_usd |->
                            Round2(RMul(recommended_stake, RDiv(ev_pct, Hundred))),
                        total_stake |-> recommended_stake,
                        instructions |->
                            <<[venue |-> o.venue,
                               outcome |-> o.name,
                               stake_usd |-> recommended_stake,
                               odds_decimal |-> o.odds_decimal,
                               potential_payout |->
                                   Round2(RMul(recommended_stake, o.odds_decimal))]>>,
                        fees_usd |-> Round2(RDiv(RMul(recommended_stake, fee_pct), Hundred)),
                        risk |-> IF RLe(Rat(5, 1), ev_pct) THEN "MEDIUM" ELSE "HIGH"]>>
            ELSE <<>>

RECURSIVE OutcomesEv(_, _, _, _, _)
\* The loops over the betting markets and their outcomes, flattened.
OutcomesEv(outs, k, anchor, min_ev_pct, stake) ==
    IF k = 0 THEN <<>>
    ELSE OutcomesEv(outs, k - 1, anchor, min_ev_pct, stake)
         \o OutcomeEv(outs[k], anchor, min_ev_pct, stake)

\* The body of the loop of find_ev_opportunities for one event group.
GroupEvOpportunities(group, min_ev_pct, stake) ==
    LET anchor_markets == SelectMarkets(group, TRUE)
        betting_markets == SelectMarkets(group, FALSE)
    IN  IF anchor_markets = <<>> \/ betting_markets = <<>> THEN <<>>
        ELSE LET outs == AllOutcomes(betting_markets, Len(betting_markets))
             IN  OutcomesEv(outs, Len(outs), anchor_markets[1], min_ev_pct, stake)

RECURSIVE FindEvOpportunities(_, _, _, _)
\* find_ev_opportunities over the first k event groups.
FindEvOpportunities(event_groups, k, min_ev_pct, stake) ==
    IF k = 0 THEN <<>>
    ELSE FindEvOpportunities(event_groups, k - 1, min_ev_pct, stake)
         \o GroupEvOpportunities(event_groups[k], min_ev_pct, stake)

\* The scanner hands one event group to find_ev_opportunities, with the
\* default threshold and stake.
InitEv ==
    /\ ScannerInit
    /\ callee = "find_ev_opportunities"
    /\ arg \in [event_groups : {<<g>> : g \in EvGroups}]
    /\ outcome = Pending

\* find_ev_opportunities returns its list.
EvReturns ==
    /\ callee = "find_ev_opportunities"
    /\ outcome = Pending
    /\ outcome' = Returned(FindEvOpportunities(arg.event_groups, Len(arg.event_groups),
                                               MIN_EV_PCT, Rat(DEFAULT_STAKE_USD, 1)))
    /\ UNCHANGED <<callee, arg>>
    /\ ScannerUnchanged

SpecEv == InitEv /\ [][EvReturns]_vars

\* ---- engine/scanner.py: scan_once, detection results and their order --------

\* Up to MaxDetected opportunities of each kind come out of a detection.
MaxDetected == 2

\* expected_profit_pct values, in ten-thousandths of a percent.
ProfitUnits == {5000, 11108, 199760}

\* The lists a detection returns: the k-th opportunity is that of the k-th group.
Detected(type) ==
    UNION {{[k \in 1..n |-> [type |-> type, event_id |-> k, expected_profit_pct |-> f[k]]] :
                f \in [1..n -> ProfitUnits]} : n \in 0..MaxDetected}

\* A sort that is not stable: an opportunity goes before its equals.
InsertBeforeEquals(sorted, x) ==
    LET before == SelectSeq(sorted, LAMBDA y : y.expected_profit_pct > x.expected_profit_pct)
        after == SelectSeq(sorted, LAMBDA y : y.expected_profit_pct <= x.expected_profit_pct)
    IN  before \o <<x>> \o after

\* One opportunity takes its place in a list sorted by descending profit: after
\* those that are not smaller (list.sort is stable, also with reverse=True).
InsertDescending(sorted, x) ==
    LET before == SelectSeq(sorted, LAMBDA y : y.expected_profit_pct >= x.expected_profit_pct)
        after == SelectSeq(sorted, LAMBDA y : y.expected_profit_pct < x.expected_profit_pct)
    IN  before \o <<x>> \o after

RECURSIVE SortByProfit(_, _)
\* opportunities.sort(key=lambda x: x.expected_profit_pct, reverse=True), on
\* the first k opportunities.
SortByProfit(opps, k) ==
    IF k = 0 THEN <<>> ELSE InsertDescending(SortByProfit(opps, k - 1), opps[k])

\* scan_once from the detections to the ScanResult: extend by the arbitrage
\* opportunities, then by the EV ones, sort, publish, build the result.
DetectAndSort(arb_opps, ev_opps) ==
    LET detected == arb_opps \o ev_opps
        sorted == SortByProfit(detected, Len(detected))
    IN  [_opportunities |-> sorted, result |-> [opportunities |-> sorted]]

\* The two detections of a scan have returned.
InitSort ==
    /\ ScannerInit
    /\ callee = "scan_once"
    /\ arg \in [arb_opps : Detected("ARBITRAGE"), ev_opps : Detected("EV")]
    /\ outcome = Pending

\* scan_once sorts and publishes.
SortReturns ==
    /\ callee = "scan_once"
    /\ outcome = Pending
    /\ outcome' = Returned(DetectAndSort(arg.arb_opps, arg.ev_opps))
    /\ UNCHANGED <<callee, arg>>
    /\ ScannerUnchanged

SpecSort == InitSort /\ [][SortReturns]_vars

\* ---- utils/odds.py ------------------------------------------------------------

\* American odds run from -MaxAmerican to MaxAmerican.
MaxAmerican == 10000
AmericanOdds == (0 - MaxAmerican)..MaxAmerican

\* Decimal odds and probabilities handed to the conversions, valid or not.
DecimalInputs == {Rat(c, 100) : c \in {-100, 0, 50, 100, 150, 200, 250}}
ProbabilityInputs == {Rat(c, 100) : c \in {-50, 0, 25, 50, 100, 150}}

\* american_to_decimal; 100 / abs(0) is a division by zero.
AmericanToDecimal(american_odds) ==
    IF american_odds > 0 THEN Returned(RAdd(One, Rat(american_odds, 100)))
    ELSE IF american_odds = 0 THEN RaisedError("ZeroDivisionError")
    ELSE Returned(RAdd(One, Rat(100, Abs(american_odds))))

\* decimal_to_american with "> 2.0": even money takes the negative branch.
DecimalToAmericanStrict(decimal_odds) ==
    IF RLt(Rat(2, 1), decimal_odds)
    THEN Returned(RoundUnits(RMul(RSub(decimal_odds, One), Hundred), 0))
    ELSE IF decimal_odds = One THEN RaisedError("ZeroDivisionError")
    ELSE Returned(RoundUnits(RDiv(RInt(-100), RSub(decimal_odds, One)), 0))

\* decimal_to_american: int(round(...)) of either branch, no check of the input.
DecimalToAmerican(decimal_odds) ==
    IF RLe(Rat(2, 1), decimal_odds)
    THEN Returned(RoundUnits(RMul(RSub(decimal_odds, One), Hundred), 0))
    ELSE IF decimal_odds = One THEN RaisedError("ZeroDivisionError")
    ELSE Returned(RoundUnits(RDiv(RInt(-100), RSub(decimal_odds, One)), 0))

\* decimal_to_probability as a call of its own: 1 / 0 is a division by zero.
DecimalToProbabilityCall(decimal_odds) ==
    IF decimal_odds = Zero THEN RaisedError("ZeroDivisionError")
    ELSE Returned(DecimalToProbability(decimal_odds))

\* probability_to_decimal
ProbabilityToDecimal(probability) ==
    IF RLe(probability, Zero) \/ RLe(One, probability) THEN RaisedError("ValueError")
    ELSE Returned(RDiv(One, probability))

\* A caller hands a value to one of the conversions.
InitOdds ==
    /\ ScannerInit
    /\ outcome = Pending
    /\ \/ callee = "american_to_decimal" /\ arg \in [american : AmericanOdds]
       \/ callee = "decimal_to_american" /\ arg \in [decimal : DecimalInputs]
       \/ callee = "decimal_to_probability" /\ arg \in [decimal : DecimalInputs]
       \/ callee = "probability_to_decimal" /\ arg \in [probability : ProbabilityInputs]

AmericanToDecimalReturns ==
    /\ callee = "american_to_decimal"
    /\ outcome = Pending
    /\ outcome' = AmericanToDecimal(arg.american)
    /\ UNCHANGED <<callee, arg>>
    /\ ScannerUnchanged

\* The caller hands the decimal odds it got back to decimal_to_american.
RoundTripCall ==
    /\ callee = "american_to_decimal"
    /\ outcome.state = "returned"
    /\ callee' = "decimal_to_american"
    /\ arg' = [american |-> arg.american, decimal |-> outcome.value]
    /\ outcome' = Pending
    /\ ScannerUnchanged

DecimalToAmericanReturns ==
    /\ callee = "decimal_to_american"
    /\ outcome = Pending
    /\ outcome' = DecimalToAmerican(arg.decimal)
    /\ UNCHANGED <<callee, arg>>
    /\ ScannerUnchanged

DecimalToProbabilityReturns ==
    /\ callee = "decimal_to_probability"
    /\ outcome = Pending
    /\ outcome' = DecimalToProbabilityCall(arg.decimal)
    /\ UNCHANGED <<callee, arg>>
    /\ ScannerUnchanged

ProbabilityToDecimalReturns ==
    /\ callee = "probability_to_decimal"
    /\ outcome = Pending
    /\ outcome' = ProbabilityToDecimal(arg.probability)
    /\ UNCHANGED <<callee, arg>>
    /\ ScannerUnchanged

NextOdds ==
    \/ AmericanToDecimalReturns
    \/ RoundTripCall
    \/ DecimalToAmericanReturns
    \/ DecimalToProbabilityReturns
    \/ ProbabilityToDecimalReturns

SpecOdds == InitOdds /\ [][NextOdds]_vars

\* ---- ingestion/kalshi.py, manifold.py, polymarket.py --------------------------

\* A source answers with up to MaxRecords records.
MaxRecords == 2

\* A record of a payload: a well-formed market, a JSON object that is not one
\* (fields missing or of the wrong type), or a value that is no object at all.
Records == {"valid", "malformed", "not_object"}
RecordLists == UNION {[1..n -> Records] : n \in 0..MaxRecords}

\* The JSON of a 200 response: an object whose "markets" field is missing, null,
\* a number or a list; a list; null; a number.
Payloads ==
    {[shape |-> "object", field |-> f, items |-> <<>>] : f \in {"missing", "null", "number"}}
    \cup {[shape |-> "object", field |-> "list", items |-> l] : l \in RecordLists}
    \cup {[shape |-> "list", field |-> "none", items |-> l] : l \in RecordLists}
    \cup {[shape |-> s, field |-> "none", items |-> <<>>] : s \in {"null", "number"}}

\* What a source can answer: no answer in time, a status other than 200, a 200
\* whose body is not JSON, a 200 with JSON.
Responses ==
    {[kind |-> k, payload |-> [shape |-> "none", field |-> "none", items |-> <<>>]] :
        k \in {"timeout", "error_status", "not_json"}}
    \cup {[kind |-> "json", payload |-> p] : p \in Payloads}

\* _request: the parsed JSON of a 200, None for anything else (the timeout, the
\* status and the exception of resp.json() are caught there).
Request(response) ==
    IF response.kind = "json" /\ response.payload.shape # "null"
    THEN [none |-> FALSE, data |-> response.payload]
    ELSE [none |-> TRUE, data |-> response.payload]

\* _parse_market, the same in the three clients: its whole body is in a try, so
\* anything but a well-formed market gives None.
ParseMarket(raw) == IF raw = "valid" THEN <<raw>> ELSE <<>>

RECURSIVE ParseAll(_, _)
\* The loop "market = self._parse_market(raw); if market: markets.append(market)".
ParseAll(raw_markets, k) ==
    IF k = 0 THEN <<>> ELSE ParseAll(raw_markets, k - 1) \o ParseMarket(raw_markets[k])

\* KalshiClient.get_markets: data.get("markets", []) on whatever JSON came.
KalshiGetMarkets(response) ==
    LET data == Request(response)
    IN  IF data.none THEN Returned([iterable |-> TRUE, items |-> <<>>])
        ELSE IF data.data.shape # "object" THEN RaisedError("AttributeError")
        ELSE IF data.data.field = "missing" THEN Returned([iterable |-> TRUE, items |-> <<>>])
        ELSE IF data.data.field = "list"
             THEN Returned([iterable |-> TRUE, items |-> data.data.items])
        ELSE Returned([iterable |-> FALSE, items |-> <<>>])

\* KalshiClient.fetch_markets: iterates over what get_markets returned.
KalshiFetchMarkets(response) ==
    LET raw_markets == KalshiGetMarkets(response)
    IN  IF raw_markets.state = "raised" THEN raw_markets
        ELSE IF ~raw_markets.value.iterable THEN RaisedError("TypeError")
        ELSE Returned(ParseAll(raw_markets.value.items, Len(raw_markets.value.items)))

\* ManifoldClient.get_markets and PolymarketClient.get_markets: the list, or []
\* when the JSON is no list.
ListOrEmpty(response) ==
    LET data == Request(response)
    IN  IF ~data.none /\ data.data.shape = "list" THEN data.data.items ELSE <<>>

\* ManifoldClient.fetch_markets: raw.get("isResolved", False) is called on each
\* record before the parser's try.
ManifoldFetchMarkets(response) ==
    LET raw_markets == ListOrEmpty(response)
    IN  IF \E k \in 1..Len(raw_markets) : raw_markets[k] = "not_object"
        THEN RaisedError("AttributeError")
        ELSE Returned(ParseAll(raw_markets, Len(raw_markets)))

\* PolymarketClient.fetch_markets
PolymarketFetchMarkets(response) ==
    LET raw_markets == ListOrEmpty(response)
    IN  Returned(ParseAll(raw_markets, Len(raw_markets)))

\* The scanner calls the fetch of an adapter and its source answers.
InitAdapter ==
    /\ ScannerInit
    /\ callee \in {"KalshiClient.fetch_markets", "ManifoldClient.fetch_markets",
                   "PolymarketClient.fetch_markets"}
    /\ arg \in [response : Responses]
    /\ outcome = Pending

KalshiReturns ==
    /\ callee = "KalshiClient.fetch_markets"
    /\ outcome = Pending
    /\ outcome' = KalshiFetchMarkets(arg.response)
    /\ UNCHANGED <<callee, arg>>
    /\ ScannerUnchanged

ManifoldReturns ==
    /\ callee = "ManifoldClient.fetch_markets"
    /\ outcome = Pending
    /\ outcome' = ManifoldFetchMarkets(arg.response)
    /\ UNCHANGED <<callee, arg>>
    /\ ScannerUnchanged

PolymarketReturns ==
    /\ callee = "PolymarketClient.fetch_markets"
    /\ outcome = Pending
    /\ outcome' = PolymarketFetchMarkets(arg.response)
    /\ UNCHANGED <<callee, arg>>
    /\ ScannerUnchanged

NextAdapter == KalshiReturns \/ ManifoldReturns \/ PolymarketReturns

SpecAdapter == InitAdapter /\ [][NextAdapter]_vars

\* ---- ingestion/predictit.py: get_all_markets and its cache ---------------
MaxWall == 60               \* seconds of wall time the calls are spread over
CACHE_TTL == 30             \* PredictItClient._cache_ttl

\* The "markets" list of a PredictIt answer.
PredictItLists == {<<>>, <<"m1">>, <<"m2">>}
\* What the request ends with: status 200 and a list, status 429, another
\* status, asyncio.TimeoutError, another exception.
PredictItAnswers ==
    [status : {"200"}, markets : PredictItLists]
        \cup [status : {"429", "500", "timeout", "exception"}, markets : {<<>>}]

\* get_all_markets up to its first await: "now = time.time()", then the cache
\* test "self._cache and (now - self._cache_time) < self._cache_ttl"; an empty
\* list is false.  Either the cached list is returned or the request is issued.
GetAllMarketsCalled ==
    /\ callee = "get_all_markets"
    /\ outcome.state # "pending"
    /\ arg' = [now |-> wall,
               requested |-> ~(client.cache # <<>> /\ wall - client.cache_time < CACHE_TTL)]
    /\ outcome' = IF arg'.requested THEN Pending ELSE Returned(client.cache)
    /\ UNCHANGED <<callee, client, wall>>
    /\ EngineUnchanged

\* The request ended.  Status 200 stores the list with the time read before
\* the request; everything else returns self._cache.
GetAllMarketsAnswered(resp) ==
    /\ callee = "get_all_markets"
    /\ outcome = Pending
    /\ IF resp.status = "200"
       THEN /\ client' = [cache |-> resp.markets, cache_time |-> arg.now,
                          present |-> TRUE, stored_at |-> wall]
            /\ outcome' = Returned(resp.markets)
       ELSE /\ outcome' = Returned(client.cache)
            /\ UNCHANGED client
    /\ UNCHANGED <<callee, arg, wall>>
    /\ EngineUnchanged

\* Time passes, between calls or while a request is in flight.
WallTick(d) ==
    /\ callee \in {"get_all_markets", "_request"}
    /\ wall + d <= MaxWall
    /\ wall' = wall + d
    /\ UNCHANGED <<callee, arg, outcome, client>>
    /\ EngineUnchanged

WallTickStep == \E d \in {10, 20} : WallTick(d)

InitPredictIt ==
    /\ ScannerInit
    /\ callee = "get_all_markets"
    /\ arg = [now |-> 0, requested |-> FALSE]
    /\ outcome = [state |-> "none"]

NextPredictIt ==
    \/ GetAllMarketsCalled
    \/ \E resp \in PredictItAnswers : GetAllMarketsAnswered(resp)
    \/ WallTickStep

SpecPredictIt == InitPredictIt /\ [][NextPredictIt]_vars

\* ---- MarketScanner: unregister_callback ----------------------------------
\* list.remove: the list without the first occurrence of x.
RemoveFirst(seq, x) ==
    LET k == CHOOSE n \in 1..Len(seq) : seq[n] = x /\ \A m \in 1..(n - 1) : seq[m] # x
    IN  SubSeq(seq, 1, k - 1) \o SubSeq(seq, k + 1, Len(seq))

\* unregister_callback(cb): "if callback in self._callbacks: remove".
Unregister(cb) ==
    /\ AppUp
    /\ callbacks' = IF InList(callbacks, cb) THEN RemoveFirst(callbacks, cb) ELSE callbacks
    /\ UNCHANGED <<running, markets, opportunities, last_scan, scan_duration_ms, clock,
                   nextScan, pc, scanOf, startedAt, fetched, result, idx, lastOutcome,
                   cbErrors, delivered, published>>
    /\ UNCHANGED wsVars
    /\ unregistered' = unregistered \cup {cb}
    /\ UNCHANGED <<callVars, atStart>>

UnregisterStep == \E cb \in Subscribers : Unregister(cb)

\* Scans with subscribers that come and go.
NextSubscribe ==
    \/ Start("loop")
    \/ ManualScan
    \/ QuietScanStep
    \/ CallbackStep
    \/ SleepDone("loop")
    \/ RegisterStep
    \/ UnregisterStep

SpecSubscribe == Init /\ [][NextSubscribe]_vars

\* ---- find_matching_markets on lists whose groups share a key --------------
MaxColliding == 4           \* length of such a list

\* Markets of one event name and sport: moneyline and totals markets of the
\* two venues, under an ordinary event_id or under one that reads like a
\* canonical key.
CollidingMarkets ==
    [event_id : {"E1", "matched_lakers_celtics"}, venue : Venues,
     event_name : {"Lakers @ Celtics"}, kind : OutcomeKinds, sport : {"NBA"}]

InitColliding ==
    /\ ScannerInit
    /\ callee = "find_matching_markets"
    /\ arg \in UNION {[1..n -> CollidingMarkets] : n \in 3..MaxColliding}
    /\ outcome = Pending

SpecColliding == InitColliding /\ [][MatcherReturns]_vars

\* ---- ingestion/sportsbooks.py: SportsOddsClient._request, utils/cache.py ---
ODDS_MAX_AGE == 30          \* market_cache.get(cache_key, max_age_seconds=30)

\* The value None.
NoneValue == <<"None">>
\* The JSON of an answer of The Odds API.
OddsLists == {<<>>, <<"e1">>, <<"e2">>}
OddsAnswers ==
    [status : {"200"}, data : OddsLists]
        \cup [status : {"401", "429", "500", "timeout", "exception"}, data : {<<>>}]

\* CacheEntry.is_expired(max_age_seconds)
IsExpired(entry, max_age_seconds) == wall - entry.cache_time > max_age_seconds

\* InMemoryCache.get: the value, or None when there is no entry or the entry
\* is expired; an expired entry is deleted.
CacheGet(entry, max_age_seconds) ==
    IF ~entry.present \/ IsExpired(entry, max_age_seconds) THEN NoneValue ELSE entry.cache
AfterCacheGet(entry, max_age_seconds) ==
    IF entry.present /\ IsExpired(entry, max_age_seconds) THEN NoStored ELSE entry

\* InMemoryCache.set: CacheEntry(value) stamped with datetime.utcnow().
CacheSet(value) ==
    [cache |-> value, cache_time |-> wall, present |-> TRUE, stored_at |-> wall]

\* _request up to its first await, for one endpoint and parameter set (one
\* cache key) and a real API key: the cached value is returned when there is
\* one, otherwise the request is issued.
RequestCalled ==
    /\ callee = "_request"
    /\ outcome.state # "pending"
    /\ LET cached == CacheGet(client, ODDS_MAX_AGE) IN
       /\ arg' = [now |-> wall, requested |-> cached = NoneValue]
       /\ outcome' = IF cached # NoneValue THEN Returned(cached) ELSE Pending
    /\ client' = AfterCacheGet(client, ODDS_MAX_AGE)
    /\ UNCHANGED <<callee, wall>>
    /\ EngineUnchanged

\* The request ended: status 200 stores the JSON in market_cache and returns
\* it, everything else returns None.
RequestAnswered(resp) ==
    /\ callee = "_request"
    /\ outcome = Pending
    /\ IF resp.status = "200"
       THEN /\ client' = CacheSet(resp.data)
            /\ outcome' = Returned(resp.data)
       ELSE /\ outcome' = Returned(NoneValue)
            /\ UNCHANGED client
    /\ UNCHANGED <<callee, arg, wall>>
    /\ EngineUnchanged

\* One scan after the other asks the sportsbook source.
InitSportsbook ==
    /\ ScannerInit
    /\ callee = "_request"
    /\ arg = [now |-> 0, requested |-> FALSE]
    /\ outcome = [state |-> "none"]

NextSportsbook ==
    \/ RequestCalled
    \/ \E resp \in OddsAnswers : RequestAnswered(resp)
    \/ WallTickStep

SpecSportsbook == InitSportsbook /\ [][NextSportsbook]_vars

\* ---- start() called again after stop() ------------------------------------
\* A second task calls start() on the same scanner.
InitRestart == ScannerInitOver(Tasks \cup Loops) /\ PureIdle

LoopScanStep ==
    \E t \in Loops : pc[t] = "fetch" /\ \E r \in ScanInputs : FetchDone(t, r, 0)

NextRestart ==
    \/ \E t \in Loops : Start(t)
    \/ LoopScanStep
    \/ \E t \in Loops : SleepDone(t)
    \/ Stop
    \/ Tick

SpecRestart == InitRestart /\ [][NextRestart]_vars

\* ---- claims -------------------------------------------------------------
\* C1: at every suspension point the market map and the opportunity list a
\* reader obtains come from one and the same scan.
C1_SnapshotFromOneScan == Markets.scan = Opportunities.scan

PosIn(seq, x) == CHOOSE i \in 1..Len(seq) : seq[i] = x

Count(seq, x) == Cardinality({i \in 1..Len(seq) : seq[i] = x})

\* C2: a subscriber that is registered once is invoked with the ScanResults in
\* the order in which the scans were published.
C2_DeliveredInPublicationOrder ==
    \A cb \in Subscribers :
        Count(callbacks, cb) = 1
        => \A i, j \in 1..Len(delivered[cb]) :
              i < j => PosIn(published, delivered[cb][i])
                          <= PosIn(published, delivered[cb][j])

RECURSIVE SumLens(_, _)
\* The sum of the lengths of the lists among results[1..n].
SumLens(results, n) ==
    IF n = 0 THEN 0
    ELSE SumLens(results, n - 1)
         + (IF results[n].kind = "list" THEN Len(results[n].items) ELSE 0)

NumRaised(results) == Cardinality({i \in 1..Len(results) : results[i].kind = "exception"})

WellFormed(results) ==
    \A i \in 1..Len(results) : \A j \in 1..Len(results[i].items) :
        results[i].items[j] # "empty"

C4_RaisingSubscriberIsolated ==
    [][ /\ (cbErrors' > cbErrors
            => /\ callbacks' = callbacks
               /\ \A t \in Tasks : lastOutcome'[t] = "error" => lastOutcome[t] = "error")
        /\ \A t \in Tasks :
              (pc[t] \in {"fetch", "incb"} /\ pc'[t] = AfterScan(t)
                  /\ lastOutcome'[t] = "ok")
              => \A i \in 1..Len(callbacks') :
                    callbacks'[i] \in Subscribers
                    => InList(delivered'[callbacks'[i]], result'[t].scan) ]_vars

\* Two scans notified two subscribers, three of the four invocations raised,
\* and both subscribers were invoked with both scans.
C4_Witness ==
    /\ callbacks = <<"cbA", "cbB">>
    /\ cbErrors >= 3
    /\ Len(delivered["cbA"]) = 2
    /\ Len(delivered["cbB"]) = 2
    /\ \A t \in Tasks : lastOutcome[t] = "ok"

\* C5: a cycle of the loop that is fetching is never aborted: the loop does not
\* exit from inside a cycle.
C5_NoMidCycleAbort ==
    [][pc["loop"] \in {"fetch", "incb", "send"} => pc'["loop"] # "exited"]_vars

\* C6: last_scan never decreases, and the timestamp of every ScanResult is at
\* least the last_scan it replaces.
C6_TimestampsNeverDecrease ==
    [][ /\ last_scan' >= last_scan
        /\ \A t \in Tasks :
              (result'[t] # result[t] /\ result'[t].scan # 0)
              => result'[t].timestamp >= last_scan ]_vars

\* Two overlapping scans were published in the reverse of the order in which
\* they started, the second after the clock advanced.
C6_Witness ==
    /\ published = <<2, 1>>
    /\ startedAt["loop"] # startedAt["manual"]
    /\ last_scan > 1

\* C7: a failed cycle of the loop leaves the running flag as it was and puts
\* the loop to sleep, and from there a new cycle starts unless the scanner is
\* stopped (or the scans explored are used up).
C7_LoopSurvivesFailedCycle ==
    /\ [][(lastOutcome'["loop"] = "error" /\ lastOutcome["loop"] # "error")
            => (running' = running /\ pc'["loop"] = "sleep")]_vars
    /\ ((pc["loop"] = "sleep" /\ lastOutcome["loop"] = "error")
            ~> (pc["loop"] = "fetch" \/ ~running \/ nextScan = MaxScans))

\* The loop's first cycle failed and its second cycle is fetching.
C7_Witness ==
    /\ pc["loop"] = "fetch"
    /\ scanOf["loop"] = 2
    /\ running
    /\ Markets.scan = 1
    /\ published = <<>>
    /\ lastOutcome["manual"] = "none"
    /\ pc["manual"] = "idle"

\* C8: a connection is sent at most one scan_result message for one scan.
C8_OneScanResultPerScan ==
    \A c \in Conns : \A s \in 1..MaxScans : Count(sent[c], ScanResultMsg(s)) <= 1

\* C9: on a connection no scan_result message precedes the connected message
\* or the initial opportunity list.
C9_InitialStateBeforeScanResults ==
    \A c \in Conns : \A i, j \in 1..Len(sent[c]) :
        i < j => ~(sent[c][i][1] = "scan_result"
                    /\ sent[c][j][1] \in {"connected", "initial_opportunities"})

\* C10: the snapshot state is written only by a step of the continuous loop.
C10_OnlyLoopWrites ==
    [][<<markets, opportunities, last_scan, scan_duration_ms>>'
            # <<markets, opportunities, last_scan, scan_duration_ms>>
        => (pc["loop"] = "fetch" /\ pc'["loop"] # "fetch")]_vars

\* The groups of the returned map that hold the market at position k.
GroupsHolding(d, k) == {key \in DOMAIN d : k \in SeqRange(d[key])}

\* C11: every market of the input list is in exactly one group of the map
\* find_matching_markets returns.
C11_EveryMarketInOneGroup ==
    (callee = "find_matching_markets" /\ outcome.state = "returned")
    => \A k \in 1..Len(arg) : Cardinality(GroupsHolding(outcome.value, k)) = 1

RECURSIVE InvSumTimes(_, _, _)
\* (1/o_1 + ... + 1/o_k) * m for odds in hundredths, m a common multiple of them.
InvSumTimes(cents, k, m) ==
    IF k = 0 THEN 0 ELSE InvSumTimes(cents, k - 1, m) + (100 * m) \div cents[k]

RECURSIVE Lcm(_, _)
\* The least common multiple of cents[1..k].
Lcm(cents, k) ==
    IF k = 0 THEN 1 ELSE LET l == Lcm(cents, k - 1) IN (l * cents[k]) \div Gcd(l, cents[k])

ValidOdds(cents) == Len(cents) >= 2 /\ \A i \in 1..Len(cents) : cents[i] > 100

\* C12: for at least two odds > 1 and a fee f, detect_arbitrage returns
\* is_arbitrage = (sum of 1/o_i < 1 - f/100), and profit_pct is
\* (1 - f/100 - sum) * 100 when that holds and 0 when it does not.  The sum is
\* taken over a common multiple m of the odds in hundredths.
C12_ArbitrageIffSumBelowThreshold ==
    (callee = "detect_arbitrage" /\ outcome.state # "pending" /\ ValidOdds(arg.odds))
    => LET m == Lcm(arg.odds, Len(arg.odds))
           s == Rat(InvSumTimes(arg.odds, Len(arg.odds), m), m)
           t == Rat(1000 - arg.fee, 1000)
       IN  /\ outcome.state = "returned"
           /\ outcome.value.is_arbitrage = RLt(s, t)
           /\ outcome.value.profit_pct
                 = IF RLt(s, t) THEN RMul(RSub(t, s), Hundred) ELSE Zero

\* Detection returned false for [2.05, 2.05] at 6 %.
C12_Witness ==
    /\ callee = "detect_arbitrage"
    /\ outcome.state = "returned"
    /\ arg.odds = <<205, 205>>
    /\ arg.fee = 60
    /\ ~outcome.value.is_arbitrage
    /\ outcome.value.profit_pct = Zero

\* A detected arbitrage: [2.10, 1.95] without fees.
C12_WitnessTrue ==
    /\ callee = "detect_arbitrage"
    /\ outcome.state = "returned"
    /\ arg.odds = <<210, 195>>
    /\ arg.fee = 0
    /\ outcome.value.is_arbitrage

\* C13: the stakes calculate_stakes returns add up to at most the capital.
C13_StakesWithinCapital ==
    (callee = "calculate_stakes" /\ outcome.state = "returned")
    => RLe(SumSeq(outcome.value.stakes, Len(outcome.value.stakes)), Rat(arg.capital, 100))

\* C14: when detect_arbitrage is true for the odds and the fee, the sizing of
\* calculate_stakes pays at least the total stake whatever the outcome, and
\* its guaranteed profit is not negative.
C14_DetectedArbitragePays ==
    (/\ callee = "calculate_stakes"
     /\ outcome.state = "returned"
     /\ DetectArbitrage([i \in 1..Len(arg.odds) |-> Odds(arg.odds[i])],
                        FeePct(arg.fee)).value.is_arbitrage)
    => /\ \A i \in 1..Len(arg.odds) :
             RLe(SumSeq(outcome.value.stakes, Len(arg.odds)),
                 RMul(outcome.value.stakes[i], Odds(arg.odds[i])))
       /\ RLe(Zero, outcome.value.guaranteed_profit)

\* The group of the example: draftkings Lakers 2.10 / Celtics 1.80, fanduel
\* Lakers 2.05 / Celtics 1.95.
C15_Group ==
    <<[venue |-> "draftkings",
       outcomes |-> <<[name |-> "Lakers", venue |-> "draftkings", odds_decimal |-> Odds(210)],
                      [name |-> "Celtics", venue |-> "draftkings", odds_decimal |-> Odds(180)]>>],
      [venue |-> "fanduel",
       outcomes |-> <<[name |-> "Lakers", venue |-> "fanduel", odds_decimal |-> Odds(205)],
                      [name |-> "Celtics", venue |-> "fanduel", odds_decimal |-> Odds(195)]>>]>>

\* C15: for the group of the example find_arbitrage_opportunities returns one
\* ARBITRAGE opportunity, Lakers @ 2.10 at draftkings and Celtics @ 1.95 at
\* fanduel, risk MEDIUM, total stake within a cent of 1000, and an
\* expected_profit_pct that is the detection value (1 - (1/2.10 + 1/1.95)) * 100
\* at the four decimals the opportunity carries.
C15_ExampleOpportunity ==
    (/\ callee = "find_arbitrage_opportunities"
     /\ arg.event_groups = <<C15_Group>>
     /\ outcome.state = "returned")
    => /\ Len(outcome.value) = 1
       /\ LET opp == outcome.value[1]
              detection == DetectArbitrage(<<Odds(210), Odds(195)>>, Zero).value.profit_pct
          IN  /\ opp.type = "ARBITRAGE"
              /\ Len(opp.instructions) = 2
              /\ opp.instructions[1].venue = "draftkings"
              /\ opp.instructions[1].outcome = "Lakers"
              /\ opp.instructions[1].odds_decimal = Odds(210)
              /\ opp.instructions[2].venue = "fanduel"
              /\ opp.instructions[2].outcome = "Celtics"
              /\ opp.instructions[2].odds_decimal = Odds(195)
              /\ opp.risk = "MEDIUM"
              /\ Abs(opp.total_stake.n * 100 - 100000 * opp.total_stake.d)
                     <= opp.total_stake.d
              /\ opp.expected_profit_pct = Round4(detection)

\* What the example gets apart from the profit figure: one opportunity with
\* the two best-priced legs, risk MEDIUM and a total stake of 1000.
C15_LegsRiskAndStake ==
    (/\ callee = "find_arbitrage_opportunities"
     /\ arg.event_groups = <<C15_Group>>
     /\ outcome.state = "returned")
    => /\ Len(outcome.value) = 1
       /\ LET opp == outcome.value[1]
          IN  /\ opp.type = "ARBITRAGE"
              /\ Len(opp.instructions) = 2
              /\ opp.instructions[1].venue = "draftkings"
              /\ opp.instructions[1].odds_decimal = Odds(210)
              /\ opp.instructions[2].venue = "fanduel"
              /\ opp.instructions[2].odds_decimal = Odds(195)
              /\ opp.risk = "MEDIUM"
              /\ opp.total_stake = Rat(DEFAULT_STAKE_USD, 1)
              /\ opp.expected_profit_pct = Rat(11108, 10000)

\* The group of the example: manifold Yes @ 1.667, draftkings Yes @ 2.00.
C16_Group ==
    <<[venue |-> "manifold",
       outcomes |-> <<[name |-> "Yes", venue |-> "manifold", odds_decimal |-> Rat(1667, 1000)]>>],
      [venue |-> "draftkings",
       outcomes |-> <<[name |-> "Yes", venue |-> "draftkings", odds_decimal |-> Rat(2000, 1000)]>>]>>

C16_ExampleReturned ==
    /\ callee = "find_ev_opportunities"
    /\ arg.event_groups = <<C16_Group>>
    /\ outcome.state = "returned"

\* C16, as claimed: for the group of the example find_ev_opportunities returns
\* one EV opportunity with ev_pct 20.0, one instruction with a stake of 100.00,
\* and risk MEDIUM.
C16_AsClaimed ==
    C16_ExampleReturned
    => /\ Len(outcome.value) = 1
       /\ outcome.value[1].type = "EV"
       /\ outcome.value[1].expected_profit_pct = Rat(20, 1)
       /\ Len(outcome.value[1].instructions) = 1
       /\ outcome.value[1].instructions[1].stake_usd = Rat(100, 1)
       /\ outcome.value[1].risk = "MEDIUM"

\* C16, amended: for the group of the example find_ev_opportunities returns
\* one EV opportunity with ev_pct (2.00 / 1.667 - 1) * 100 = 19.976, one
\* instruction, Yes @ 2.00 at draftkings, with the quarter-Kelly stake
\* round(1000 * 0.19976 * 0.25, 2) = 49.94, and risk MEDIUM.
C16_ExampleOpportunity ==
    C16_ExampleReturned
    => /\ Len(outcome.value) = 1
       /\ outcome.value[1].type = "EV"
       /\ outcome.value[1].expected_profit_pct = Rat(19976, 1000)
       /\ Len(outcome.value[1].instructions) = 1
       /\ outcome.value[1].instructions[1].venue = "draftkings"
       /\ outcome.value[1].instructions[1].outcome = "Yes"
       /\ outcome.value[1].instructions[1].odds_decimal = Rat(2, 1)
       /\ outcome.value[1].instructions[1].stake_usd = Rat(4994, 100)
       /\ outcome.value[1].total_stake = Rat(4994, 100)
       /\ outcome.value[1].risk = "MEDIUM"

C16_Witness == C16_ExampleReturned /\ Len(outcome.value) = 1

\* The place of an opportunity in the detection order: the arbitrage
\* opportunities in group order, then the EV opportunities in group order.
DetectionOrder(opp) ==
    IF opp.type = "ARBITRAGE" THEN opp.event_id ELSE Len(arg.arb_opps) + opp.event_id

\* C17: the published list and the ScanResult hold the detected opportunities
\* by descending expected_profit_pct, equal ones in detection order.
C17_SortedStable ==
    (callee = "scan_once" /\ outcome.state = "returned")
    => LET opps == outcome.value._opportunities
       IN  /\ outcome.value.result.opportunities = opps
           /\ Len(opps) = Len(arg.arb_opps) + Len(arg.ev_opps)
           /\ SeqRange(opps) = SeqRange(arg.arb_opps) \cup SeqRange(arg.ev_opps)
           /\ \A i, j \in 1..Len(opps) :
                 i < j => \/ opps[i].expected_profit_pct > opps[j].expected_profit_pct
                          \/ /\ opps[i].expected_profit_pct = opps[j].expected_profit_pct
                             /\ DetectionOrder(opps[i]) < DetectionOrder(opps[j])

\* A scan whose sort moved an opportunity and met two of equal profit.
C17_Witness ==
    /\ callee = "scan_once"
    /\ outcome.state = "returned"
    /\ outcome.value._opportunities # arg.arb_opps \o arg.ev_opps
    /\ \E i, j \in 1..Len(outcome.value._opportunities) :
          /\ i < j
          /\ outcome.value._opportunities[i].expected_profit_pct
                = outcome.value._opportunities[j].expected_profit_pct

\* decimal_to_american has answered for the decimal odds american_to_decimal
\* made of arg.american.
RoundTripDone ==
    /\ callee = "decimal_to_american"
    /\ "american" \in DOMAIN arg
    /\ outcome # Pending

\* C18, as claimed: decimal_to_american(american_to_decimal(a)) = a for every
\* integer a from -10000 to 10000 but 0.
C18_AsClaimed ==
    (RoundTripDone /\ arg.american # 0) => outcome = Returned(arg.american)

\* C18, amended: decimal_to_american(american_to_decimal(a)) = a for every
\* integer a with 100 <= a <= 10000 or -10000 <= a <= -101.
C18_RoundTrip ==
    (RoundTripDone /\ (arg.american >= 100 \/ arg.american <= -101))
    => outcome = Returned(arg.american)

C18_Witness == RoundTripDone /\ arg.american = -110 /\ outcome = Returned(-110)

\* C19: decimal_to_probability and decimal_to_american fail with a ValueError
\* for decimal odds d <= 1, probability_to_decimal for a probability outside
\* (0, 1): none of them returns a value or fails with another error.
C19_InvalidInputRejected ==
    /\ (/\ callee \in {"decimal_to_probability", "decimal_to_american"}
        /\ ~("american" \in DOMAIN arg)
        /\ outcome # Pending
        /\ RLe(arg.decimal, One))
       => outcome = RaisedError("ValueError")
    /\ (/\ callee = "probability_to_decimal"
        /\ outcome # Pending
        /\ (RLe(arg.probability, Zero) \/ RLe(One, arg.probability)))
       => outcome = RaisedError("ValueError")

\* The part of C19 the code does: probability_to_decimal rejects a probability
\* outside (0, 1).
C19_ProbabilityRejected ==
    (/\ callee = "probability_to_decimal"
     /\ outcome # Pending
     /\ (RLe(arg.probability, Zero) \/ RLe(One, arg.probability)))
    => outcome = RaisedError("ValueError")

\* The records of a response that an adapter is to look at: those of the list
\* its source's format carries, none for any other answer.
RecordsOffered ==
    IF arg.response.kind # "json" THEN <<>>
    ELSE IF callee = "KalshiClient.fetch_markets"
         THEN IF arg.response.payload.shape = "object" /\ arg.response.payload.field = "list"
              THEN arg.response.payload.items ELSE <<>>
    ELSE IF arg.response.payload.shape = "list" THEN arg.response.payload.items ELSE <<>>

AdapterAnswered ==
    /\ callee \in {"KalshiClient.fetch_markets", "ManifoldClient.fetch_markets",
                   "PolymarketClient.fetch_markets"}
    /\ outcome # Pending

\* C20: whatever its source answers, an adapter's fetch returns a list and
\* never raises; the list holds the well-formed records of the answer, a
\* malformed record dropping only itself.
C20_FetchNeverRaises ==
    AdapterAnswered
    => outcome = Returned(SelectSeq(RecordsOffered, LAMBDA r : r = "valid"))

\* The part of C20 the adapters do: a timeout, a status other than 200 and a
\* body that is not JSON give the empty list.
C20_TransportErrorsContained ==
    (AdapterAnswered /\ arg.response.kind # "json") => outcome = Returned(<<>>)

\* C21: PredictIt's get_all_markets returns the stored list without a request
\* when a successful response was stored less than 30 seconds ago; otherwise
\* it issues a request, a 200 stores and returns the new list, and a 429,
\* another status, a timeout or an exception returns the stored list and
\* leaves the cache and its timestamp as they are.
StoredRecently == client.present /\ wall - client.stored_at < CACHE_TTL
GetAllMarketsBegins ==
    /\ callee = "get_all_markets"
    /\ outcome.state # "pending"
    /\ wall' = wall
    /\ <<arg, outcome>>' # <<arg, outcome>>
GetAllMarketsEnds ==
    callee = "get_all_markets" /\ outcome = Pending /\ outcome' # Pending
C21_CacheServesRecentResponse ==
    [][/\ GetAllMarketsBegins =>
            IF StoredRecently
            THEN ~arg'.requested /\ outcome' = Returned(client.cache)
            ELSE arg'.requested
       /\ GetAllMarketsEnds =>
            \/ client'.stored_at = wall /\ client'.present /\ outcome' = Returned(client'.cache)
            \/ client' = client /\ outcome' = Returned(client.cache)]_vars
\* The part about the request's result alone.
C21_FailureKeepsCache ==
    [][GetAllMarketsEnds =>
            \/ client'.present /\ outcome' = Returned(client'.cache)
            \/ client' = client /\ outcome' = Returned(client.cache)]_vars

\* C22: the callbacks invoked for a scan are exactly those registered when the
\* scan's notification started, whatever is registered or unregistered while
\* the callbacks are awaited.
NotificationEnds(t) ==
    pc[t] \in {"fetch", "incb", "send"} /\ pc'[t] = AfterScan(t) /\ lastOutcome'[t] = "ok"
RegisteredAtStart(t) ==
    IF pc[t] = "fetch" THEN {callbacks[k] : k \in 1..Len(callbacks)} ELSE atStart[t]
C22_NotifiesThoseRegisteredAtStart ==
    [][\A t \in Tasks : NotificationEnds(t) =>
          \A cb \in Subscribers :
              cb \in RegisteredAtStart(t) <=> InList(delivered'[cb], scanOf[t])]_vars
\* In particular: a subscriber registered at the start and still registered at
\* the end was invoked.
C22_NoRegisteredSubscriberSkipped ==
    [][\A t \in Tasks : NotificationEnds(t) =>
          \A cb \in Subscribers :
              cb \in RegisteredAtStart(t) /\ InList(callbacks', cb)
                  => InList(delivered'[cb], scanOf[t])]_vars

\* C23: when two groups of find_matching_markets map to the same key, the
\* result keeps under that key the group that occurs first in the input.
\* The groups the function builds, each with its key: the merged groups of
\* several venues, and the event_id groups that share no market with a merged
\* group.
KeyedGroups(ms) ==
    LET merged_groups == MergeGroups(ms, 1, {}, <<>>)
        merged == {merged_groups[g] : g \in 1..Len(merged_groups)}
    IN  {<<CreateCanonicalEventId(ms, group), group>> :
            group \in {g \in merged : Cardinality({ms[g[k]].venue : k \in 1..Len(g)}) > 1}}
        \cup
        {<<ms[i].event_id, EventGroup(ms, ms[i].event_id)>> :
            i \in {k \in 1..Len(ms) :
                     \A g \in merged : SeqRange(EventGroup(ms, ms[k].event_id)) \cap SeqRange(g) = {}}}
C23_FirstGroupKeptOnCollision ==
    (callee = "find_matching_markets" /\ outcome.state = "returned")
    => \A kg \in KeyedGroups(arg) :
          \A other \in KeyedGroups(arg) :
              (other[1] = kg[1] /\ kg[2][1] < other[2][1])
              => outcome.value[kg[1]] = kg[2]

\* C24: the outcome chosen for each outcome name is one with the largest
\* odds_decimal, ties going to the earliest timestamp and then to the smallest
\* venue name, so that the legs of the opportunity are the same for every
\* order of the markets in the group.
Reversed(seq) == [i \in 1..Len(seq) |-> seq[Len(seq) + 1 - i]]
Legs(opps) ==
    {<<opps[o].instructions[i].outcome, opps[o].instructions[i].venue,
       opps[o].instructions[i].odds_decimal>> :
        o \in 1..Len(opps), i \in 1..2}
C24_ChoiceIndependentOfOrder ==
    (callee = "find_arbitrage_opportunities" /\ outcome.state = "returned")
    => Legs(outcome.value)
         = Legs(FindArbitrageOpportunities(<<Reversed(arg.event_groups[1])>>, 1,
                    MIN_ARBITRAGE_PROFIT_PCT, Rat(DEFAULT_STAKE_USD, 1)))
\* The part about the odds alone: every leg has the largest odds offered for
\* its outcome name in the group.
C24_LegsHaveLargestOdds ==
    (callee = "find_arbitrage_opportunities" /\ outcome.state = "returned")
    => \A leg \in Legs(outcome.value) :
          LET group == arg.event_groups[1]
              outs == AllOutcomes(group, Len(group))
          IN  \A k \in 1..Len(outs) :
                  Lower(outs[k].name) = Lower(leg[1]) => RLe(outs[k].odds_decimal, leg[3])

\* C25: outside the PredictIt adapter nothing is carried from one scan to the
\* next: what an adapter hands to a scan comes from a response obtained during
\* that scan, so the sportsbook adapter's _request never returns a value
\* without having asked the source in that call.
RequestBegins ==
    /\ callee = "_request"
    /\ outcome.state # "pending"
    /\ wall' = wall
    /\ <<arg, outcome>>' # <<arg, outcome>>
C25_NoResponseCarriedOver ==
    [][RequestBegins => arg'.requested /\ outcome' = Pending]_vars

\* C26: whatever the sequence of start() and stop() calls, at most one scan
\* loop is active: while is_running is true no two tasks are inside the
\* while-loop of start().
ActiveLoops == {t \in Loops : pc[t] \notin {"created", "exited"}}
C26_AtMostOneLoop == running => Cardinality(ActiveLoops) <= 1
\* Two loops inside a scan cycle at once.
C26_NoTwoLoopsScanning ==
    Cardinality({t \in Loops : pc[t] \in {"fetch", "incb", "send"}}) <= 1

\* C27: no group returned under a matched_ key holds two markets of the same
\* venue.
MatchedKeys == {"matched_lakers_celtics", "matched_bulls_knicks"}
C27_OneMarketPerVenue ==
    (callee = "find_matching_markets" /\ outcome.state = "returned")
    => \A key \in DOMAIN outcome.value \cap MatchedKeys :
          LET group == outcome.value[key]
          IN  \A i, j \in 1..Len(group) :
                  i # j => arg[group[i]].venue # arg[group[j]].venue

\* C28: once unregister_callback(cb) has returned, a scan whose notification
\* starts afterwards does not invoke cb, however often cb was registered
\* before.
C28_UnregisteredNotInvoked ==
    [][\A t \in Tasks, cb \in Subscribers :
          (pc[t] = "fetch" /\ cb \in unregistered) => delivered'[cb] = delivered[cb]]_vars

\* C29: a broadcast of a scan result sends to every client that is connected
\* from its start to its end, whatever other clients do meanwhile.
BroadcastEnds(t) ==
    pc[t] = "send" /\ (pc'[t] # "send" \/ idx'[t] # idx[t])
C29_BroadcastReachesConnected ==
    [][\A t \in Tasks : BroadcastEnds(t) =>
          \A c \in bcast[t].atBegin \cap active_connections' : c \in bcast[t].visited]_vars
\* A send that fails removes the failing connection and no other one.
C29_FailedSendRemovesOnlyFailing ==
    [][\A t \in Tasks : BroadcastEnds(t) =>
          active_connections \ active_connections' \subseteq bcast[t].visited]_vars

\* C30: the published snapshot is never replaced by the result of a scan whose
\* fetch started before the fetch of the scan that built the current one
\* (scans are numbered in the order their fetches start).
C30_SnapshotNeverOlder ==
    [][/\ Markets'.scan >= Markets.scan
       /\ Opportunities'.scan >= Opportunities.scan]_vars

====
